---- MODULE Spec2Model ----
(***************************************************************************)
(* Reading orchestration of the MetaMystic backend                         *)
(* (backend/src/services/reading_service.py and its collaborators).        *)
(*                                                                         *)
(* A Reading row is created by create_reading, processed by                *)
(* process_reading (one coroutine per invocation, interleaving with the    *)
(* others at its await points) and previewed, without persistence, by      *)
(* preview_reading.                                                        *)
(*                                                                         *)
(* Python's Optional values are sets: None is {} and a present value v is  *)
(* {v}.  Strings built by f-strings are records naming the template and    *)
(* the value rendered into it.                                             *)
(***************************************************************************)
EXTENDS Integers, Sequences, FiniteSets, TLC

None == {}

Some(v) == {v}

Get(o) == CHOOSE x \in o : TRUE

\* Python truthiness of an Optional[str] and of an Optional number: None, ""
\* and 0 are falsy.
TruthyStr(o) == o # None /\ Get(o) # ""

TruthyNum(o) == o # None /\ Get(o) # 0

----------------------------------------------------------------------------
(* Bounds of the model *)

\* Reading rows that create_reading may insert.
MaxReadings == 1

\* Invocations of process_reading (background tasks and direct calls).
MaxTasks == 2

\* States of the random number generator.
RngModulus == 16

----------------------------------------------------------------------------
(* Program constants and enumerations *)

ReadingStatus == {"pending", "processing", "completed", "failed"}

Calcs == {"astrology", "numerology", "zodiac", "tarot"}

DEFAULT_PARTNER_SLUG == "metamystic"

DEFAULT_TAROT_DECK == "rider_waite_smith"

DEFAULT_LLM_PROVIDER == "openai"

OPENAI_MODEL == "gpt-4"

----------------------------------------------------------------------------
(* Exceptions *)

MetaMysticException(message, status_code) ==
    [type |-> "MetaMysticException", message |-> message,
     status_code |-> status_code, tag |-> None]

CalculationError(calculation_type) ==
    [type |-> "CalculationError", message |-> "Calculation error",
     status_code |-> 422, tag |-> Some(calculation_type)]

LLMProviderError(provider) ==
    [type |-> "LLMProviderError", message |-> "LLM provider error",
     status_code |-> 502, tag |-> Some(provider)]

\* What AsyncSession.commit raises when the write fails.
PersistenceError ==
    [type |-> "SQLAlchemyError", message |-> "commit failed",
     status_code |-> 500, tag |-> None]

----------------------------------------------------------------------------
(* Requests *)

\* The fields of a ReadingRequest whose values are fixed in this model.
RequestFieldsFixed ==
    [birth_date : {"1990-06-15"}, birth_location : {Some("New York")},
     birth_name : {None}, persona_id : {None}, deck_slug : {None},
     spread_slug : {"three_card"}, sidereal : {FALSE}, ayanamsa : {"LAHIRI"},
     seed : {None}]

Merge(a, b) ==
    [f \in DOMAIN a \cup DOMAIN b |-> IF f \in DOMAIN a THEN a[f] ELSE b[f]]

\* ReadingRequest values, from the given choices of the varying fields;
\* includes: the choices of the set of calculators whose include flag is true.
ReadingRequest(times, lats, lons, names, partners, questions, includes) ==
    { Merge(Merge(v, x),
            [include_astrology  |-> "astrology" \in inc,
             include_numerology |-> "numerology" \in inc,
             include_zodiac     |-> "zodiac" \in inc,
             include_tarot      |-> "tarot" \in inc]) :
        v \in [birth_time : times, birth_latitude : lats, birth_longitude : lons,
               full_name : names, partner_slug : partners, question : questions],
        x \in RequestFieldsFixed,
        inc \in includes }

\* Requests of the lifecycle specification: with and without the birth time
\* the astrology calculator needs.
Requests ==
    ReadingRequest({None, Some("14:30")}, {Some(40)}, {Some(-74)},
                   {Some("Ann")}, {Some("acme")}, {Some("Will I travel?")},
                   {Calcs})

\* Calculator failures of the lifecycle specification: none, some, all.
Failures == {{}, {"astrology", "tarot"}, Calcs}

\* Requests of the preview specification: every calculator included, tarot
\* excluded, none included; the name is the one process_reading assumes.
PreviewRequests ==
    ReadingRequest({Some("14:30")}, {Some(40)}, {Some(-74)},
                   {Some("Unknown")}, {None}, {Some("Will I travel?")},
                   {Calcs, Calcs \ {"tarot"}, {}})

\* Requests of the create specification: partner, persona, deck and spread
\* each left out, naming a row that exists, or naming one that does not;
\* persona S2 exists and is a persona of partner metamystic.
CreateRequests ==
    { [r EXCEPT !.partner_slug = p, !.persona_id = s, !.deck_slug = d,
                !.spread_slug = l] :
        r \in ReadingRequest({Some("14:30")}, {Some(40)}, {Some(-74)},
                             {Some("Ann")}, {None}, {Some("Will I travel?")}, {Calcs}),
        p \in {None, Some("acme"), Some("nobody")},
        s \in {None, Some("S2"), Some("S9")},
        d \in {None, Some("thoth"), Some("marseille")},
        l \in {"three_card", "celtic_cross"} }

IncludeFlag(request, c) ==
    CASE c = "astrology"  -> request.include_astrology
      [] c = "numerology" -> request.include_numerology
      [] c = "zodiac"     -> request.include_zodiac
      [] c = "tarot"      -> request.include_tarot

----------------------------------------------------------------------------
(* State *)

VARIABLES
    readings,   \* the readings table: sequence of Reading rows, id = index
    requested,  \* requested[id]: the ReadingRequest reading id was created from
    tasks,      \* invocations of process_reading, in order of scheduling
    response,   \* the latest response of a readings endpoint (None before)
    preview,    \* result of the latest preview_reading call (None before)
    calls,      \* <<operation, callee>>: what each service operation has called
    config,     \* the partners, personas, decks and spreads tables
    call,       \* the latest call of an endpoint or core function: arguments, outcome
    rng,        \* the state of the generator of Python's random module
    now,        \* the clock, in seconds
    redis,      \* redis[key]: the sorted set under that key and its expiry
    dispatches  \* the requests the rate limiter has taken, in order of arrival

vars == <<readings, requested, tasks, response, preview, calls, config, call, rng,
          now, redis, dispatches>>

(* Configuration rows held by the persistence gateway (read-only here) *)

\* The seeded configuration: the default partner and deck exist, each
\* partner has at most one default persona.
DefaultConfiguration ==
    [partners |->
        { [id |-> "P0", slug |-> "metamystic",
           prompt_stub |-> Some("You are the MetaMystic oracle.")],
          [id |-> "P1", slug |-> "acme", prompt_stub |-> None] },
     personas |->
        { [id |-> "S1", partner_id |-> "P1", is_default |-> TRUE,
           voice_style |-> Some("mystical"), tone |-> Some("warm"),
           prompt_prefix |-> None, prompt_suffix |-> None],
          [id |-> "S2", partner_id |-> "P0", is_default |-> FALSE,
           voice_style |-> Some("plain"), tone |-> None,
           prompt_prefix |-> None, prompt_suffix |-> None] },
     decks |->
        { [id |-> "D0", slug |-> "rider_waite_smith"],
          [id |-> "D1", slug |-> "thoth"] },
     spreads |->
        { [id |-> "L1", slug |-> "one_card",   card_count |-> 1],
          [id |-> "L3", slug |-> "three_card", card_count |-> 3] }]

\* The configurations the tables can hold: the seeded one, one without the
\* default partner, one without the default deck, and one in which partner
\* acme has two default personas.
Configurations ==
    { DefaultConfiguration,
      [DefaultConfiguration EXCEPT
          !.partners = {p \in @ : p.slug # DEFAULT_PARTNER_SLUG}],
      [DefaultConfiguration EXCEPT
          !.decks = {d \in @ : d.slug # DEFAULT_TAROT_DECK}],
      [DefaultConfiguration EXCEPT
          !.personas = @ \cup
             { [id |-> "S3", partner_id |-> "P1", is_default |-> TRUE,
                voice_style |-> Some("stern"), tone |-> None,
                prompt_prefix |-> None, prompt_suffix |-> None] }] }

Partners == config.partners

Personas == config.personas

Decks == config.decks

Spreads == config.spreads


\* The operations of the persistence session the service uses.
SessionOps == {"execute", "add", "commit", "refresh"}

\* calls after operation op has called each of callees.
Called(op, callees) == calls \cup {<<op, callee>> : callee \in callees}

----------------------------------------------------------------------------
(* Results of calls that may raise: exc is the exception, val the value *)

Return(v) == [exc |-> None, val |-> Some(v)]

Raise(e) == [exc |-> Some(e), val |-> None]

\* Result.scalar_one_or_none() over the rows a select matched; the value is
\* an Optional row.
ScalarOneOrNone(rows) ==
    IF Cardinality(rows) > 1
    THEN Raise([type |-> "MultipleResultsFound", message |-> "multiple rows",
                status_code |-> 500, tag |-> None])
    ELSE Return(rows)

----------------------------------------------------------------------------
(* ReadingService: configuration resolution and create_reading *)

\* _get_partner: by slug, else the default partner, else an error.
GetPartner(partner_slug) ==
    LET named == IF TruthyStr(partner_slug)
                 THEN ScalarOneOrNone({p \in Partners : p.slug = Get(partner_slug)})
                 ELSE Return(None)
        dflt  == ScalarOneOrNone({p \in Partners : p.slug = DEFAULT_PARTNER_SLUG})
    IN  IF named.exc # None THEN named
        ELSE IF Get(named.val) # None THEN Return(Get(Get(named.val)))
        ELSE IF dflt.exc # None THEN dflt
        ELSE IF Get(dflt.val) = None
             THEN Raise(MetaMysticException("No default partner found", 500))
             ELSE Return(Get(Get(dflt.val)))

\* _get_persona: by id when one is given, else the partner's default persona;
\* the value is an Optional persona.
GetPersona(persona_id, partner) ==
    IF TruthyStr(persona_id)
    THEN ScalarOneOrNone({s \in Personas : s.id = Get(persona_id)})
    ELSE ScalarOneOrNone({s \in Personas : s.partner_id = partner.id /\ s.is_default})

\* _get_deck: by slug, else the default deck, else an error.
GetDeck(deck_slug, partner) ==
    LET named == IF TruthyStr(deck_slug)
                 THEN ScalarOneOrNone({d \in Decks : d.slug = Get(deck_slug)})
                 ELSE Return(None)
        dflt  == ScalarOneOrNone({d \in Decks : d.slug = DEFAULT_TAROT_DECK})
    IN  IF named.exc # None THEN named
        ELSE IF Get(named.val) # None THEN Return(Get(Get(named.val)))
        ELSE IF dflt.exc # None THEN dflt
        ELSE IF Get(dflt.val) = None
             THEN Raise(MetaMysticException("No default deck found", 500))
             ELSE Return(Get(Get(dflt.val)))

\* _get_spread: by slug, or a 404.
GetSpread(spread_slug, partner) ==
    LET named == ScalarOneOrNone({l \in Spreads : l.slug = spread_slug})
    IN  IF named.exc # None THEN named
        ELSE IF Get(named.val) = None
             THEN Raise(MetaMysticException("Spread not found", 404))
             ELSE Return(Get(Get(named.val)))

\* Fault model: create_reading fills the numerology and zodiac results, which
\* need the birth date alone, while it builds the row.
NewReadingCalculated(request, partner, persona, deck, spread) ==
    [partner_id      |-> Some(partner.id),
     persona_id      |-> IF persona # None THEN Some(Get(persona).id) ELSE None,
     deck_id         |-> Some(deck.id),
     spread_id       |-> Some(spread.id),
     birth_date      |-> Some(request.birth_date),
     birth_time      |-> request.birth_time,
     birth_location  |-> request.birth_location,
     birth_latitude  |-> request.birth_latitude,
     birth_longitude |-> request.birth_longitude,
     question        |-> request.question,
     status          |-> "pending",
     astrology_data  |-> None,
     numerology_data |-> Some([calculator |-> "numerology"]),
     zodiac_data     |-> Some([calculator |-> "zodiac"]),
     tarot_data      |-> None,
     interpretation  |-> None,
     llm_provider    |-> None,
     llm_model       |-> None]

\* The Reading constructed by create_reading; the columns it does not set
\* are NULL.
NewReading(request, partner, persona, deck, spread) ==
    [partner_id      |-> Some(partner.id),
     persona_id      |-> IF persona # None THEN Some(Get(persona).id) ELSE None,
     deck_id         |-> Some(deck.id),
     spread_id       |-> Some(spread.id),
     birth_date      |-> Some(request.birth_date),
     birth_time      |-> request.birth_time,
     birth_location  |-> request.birth_location,
     birth_latitude  |-> request.birth_latitude,
     birth_longitude |-> request.birth_longitude,
     question        |-> request.question,
     status          |-> "pending",
     astrology_data  |-> None,
     numerology_data |-> None,
     zodiac_data     |-> None,
     tarot_data      |-> None,
     interpretation  |-> None,
     llm_provider    |-> None,
     llm_model       |-> None]

\* create_reading up to the row it adds: the four lookups in order, the
\* first failure ending the call before any row is built.
CreateReading(request) ==
    LET partner == GetPartner(request.partner_slug)
    IN  IF partner.exc # None THEN partner
        ELSE LET persona == GetPersona(request.persona_id, Get(partner.val))
             IN  IF persona.exc # None THEN persona
                 ELSE LET deck == GetDeck(request.deck_slug, Get(partner.val))
                      IN  IF deck.exc # None THEN deck
                          ELSE LET spread == GetSpread(request.spread_slug, Get(partner.val))
                               IN  IF spread.exc # None THEN spread
                                   ELSE Return(NewReading(request, Get(partner.val),
                                                          Get(persona.val), Get(deck.val),
                                                          Get(spread.val)))

\* get_reading: the row with that id, or None.
GetReading(reading_id) ==
    IF reading_id \in 1..Len(readings) THEN Some(readings[reading_id]) ELSE None

\* The Reading.partner and Reading.persona relationships (Optional rows).
ReadingPartner(reading) ==
    {p \in Partners : reading.partner_id # None /\ p.id = Get(reading.partner_id)}

ReadingPersona(reading) ==
    {s \in Personas : reading.persona_id # None /\ s.id = Get(reading.persona_id)}

----------------------------------------------------------------------------
(* Calculator fan-out: _perform_calculations *)

\* full_name as _perform_calculations takes it: from the request when there
\* is one, else the literal "Unknown".
FullNameFor(request) ==
    IF request # None THEN Get(request).full_name ELSE Some("Unknown")

\* The include_<calculator> test: "not request or request.include_...".
Included(request, c) == request = None \/ IncludeFlag(Get(request), c)

\* The calculators _perform_calculations calls for this reading; request is
\* None when process_reading calls it and the request when preview does.
Invoked(reading, request) ==
    { c \in Calcs :
        /\ Included(request, c)
        /\ CASE c = "astrology"  -> /\ reading.birth_date # None
                                    /\ TruthyStr(reading.birth_time)
                                    /\ TruthyNum(reading.birth_latitude)
                                    /\ TruthyNum(reading.birth_longitude)
             [] c = "numerology" -> /\ reading.birth_date # None
                                    /\ TruthyStr(FullNameFor(request))
             [] c = "zodiac"     -> reading.birth_date # None
             [] c = "tarot"      -> TRUE }

\* What each calculator returns for the arguments it is called with.
CalculatorResult(c, reading, request) ==
    CASE c = "astrology" ->
           [calc |-> c, birth_date |-> reading.birth_date,
            birth_time |-> reading.birth_time,
            birth_location |-> IF TruthyStr(reading.birth_location)
                               THEN reading.birth_location ELSE Some("Unknown"),
            latitude |-> reading.birth_latitude,
            longitude |-> reading.birth_longitude,
            sidereal |-> IF request # None THEN Get(request).sidereal ELSE FALSE,
            ayanamsa |-> IF request # None THEN Get(request).ayanamsa ELSE "LAHIRI"]
      [] c = "numerology" ->
           [calc |-> c, birth_date |-> reading.birth_date,
            full_name |-> FullNameFor(request),
            birth_name |-> IF request # None THEN Get(request).birth_name ELSE None]
      [] c = "zodiac" ->
           [calc |-> c, birth_date |-> reading.birth_date]
      [] c = "tarot" ->
           [calc |-> c,
            spread_slug |-> IF request # None THEN Get(request).spread_slug
                            ELSE "three_card",
            deck_slug |-> IF request # None THEN Get(request).deck_slug ELSE None,
            partner_slug |-> IF request # None THEN Get(request).partner_slug ELSE None,
            seed |-> IF request # None THEN Get(request).seed ELSE None,
            question |-> reading.question]

\* Fault model: one try around the whole fan-out, so that the first raise
\* ends it and the calculators after it are never called.
CallOrder(c) ==
    CASE c = "astrology" -> 1 [] c = "numerology" -> 2
      [] c = "zodiac" -> 3 [] c = "tarot" -> 4

PerformCalculationsAborting(reading, request, raises) ==
    [c \in Calcs |->
        IF /\ c \in Invoked(reading, request)
           /\ \A d \in raises \cap Invoked(reading, request) : CallOrder(d) > CallOrder(c)
        THEN Some(CalculatorResult(c, reading, request))
        ELSE None]

\* _perform_calculations: the dict it returns, as calculator -> Optional
\* result; raises is the set of calculators that raise in this pass.  Each
\* call sits in its own try/except, so a raise leaves only that key out.
PerformCalculations(reading, request, raises) ==
    [c \in Calcs |->
        IF c \in Invoked(reading, request) /\ c \notin raises
        THEN Some(CalculatorResult(c, reading, request))
        ELSE None]

NoCalculations == [c \in Calcs |-> None]

----------------------------------------------------------------------------
(* Prompt compiler: LLMProvider.format_reading_prompt *)

\* One element of prompt_parts: a literal, or an f-string and its value.
Part(text, arg) == [text |-> text, arg |-> arg]

FormatAstroSection(astro_data) ==
    IF astro_data = None THEN Part("No astrology data available.", None)
    ELSE Part("astrology section", astro_data)

FormatNumerologySection(numerology_data) ==
    IF numerology_data = None THEN Part("No numerology data available.", None)
    ELSE Part("numerology section", numerology_data)

FormatZodiacSection(zodiac_data) ==
    IF zodiac_data = None THEN Part("No Chinese zodiac data available.", None)
    ELSE Part("zodiac section", zodiac_data)

\* Fault model: _format_tarot_section without its guard for missing data.
FormatTarotSectionUnguarded(tarot_data) ==
    Part("tarot section", tarot_data)

FormatTarotSection(tarot_data) ==
    IF tarot_data = None THEN Part("No tarot data available.", None)
    ELSE Part("tarot section", tarot_data)

FormatReadingPrompt(astro_data, numerology_data, zodiac_data, tarot_data, question, partner_prompt_stub, persona_config) ==
    (IF TruthyStr(partner_prompt_stub)
     THEN <<Part("{partner_prompt_stub}", partner_prompt_stub)>> ELSE <<>>)
    \o (IF persona_config # None /\ TruthyStr(Get(persona_config).voice_style)
        THEN <<Part("Speak in a {voice_style} voice.", Get(persona_config).voice_style)>>
        ELSE <<>>)
    \o (IF persona_config # None /\ TruthyStr(Get(persona_config).tone)
        THEN <<Part("Use a {tone} tone throughout.", Get(persona_config).tone)>>
        ELSE <<>>)
    \o (IF TruthyStr(question)
        THEN <<Part("The user asks: '{question}'", question)>> ELSE <<>>)
    \o << Part("Based on the following spiritual calculations, provide a comprehensive reading:", None),
          Part("", None),
          Part("ASTROLOGY:", None),
          FormatAstroSection(astro_data),
          Part("", None),
          Part("NUMEROLOGY:", None),
          FormatNumerologySection(numerology_data),
          Part("", None),
          Part("CHINESE ZODIAC:", None),
          FormatZodiacSection(zodiac_data),
          Part("", None),
          Part("TAROT:", None),
          FormatTarotSection(tarot_data),
          Part("", None),
          Part("Please weave these insights together into a cohesive, positive, and empowering reading.", None),
          Part("Focus on growth opportunities and frame any challenges as chances for improvement.", None),
          Part("Keep the reading between 800-1200 words.", None) >>

----------------------------------------------------------------------------
(* _get_ai_interpretation *)

\* partner_prompt_stub as _get_ai_interpretation reads it off the reading.
PartnerPromptStub(reading) ==
    IF ReadingPartner(reading) # None
    THEN Get(ReadingPartner(reading)).prompt_stub ELSE None

\* persona_config as _get_ai_interpretation builds it off the reading.
PersonaConfig(reading) ==
    IF ReadingPersona(reading) # None
    THEN LET s == Get(ReadingPersona(reading))
         IN  Some([voice_style |-> s.voice_style, tone |-> s.tone,
                   prompt_prefix |-> s.prompt_prefix,
                   prompt_suffix |-> s.prompt_suffix])
    ELSE None

\* The prompt _get_ai_interpretation hands to provider.generate_response.
InterpretationPrompt(reading, calculations) ==
    FormatReadingPrompt(calculations["astrology"], calculations["numerology"],
                        calculations["zodiac"], calculations["tarot"],
                        reading.question, PartnerPromptStub(reading),
                        PersonaConfig(reading))

\* The response dict of a successful generate_response.
GenerateResponse(prompt) ==
    [content |-> Some([reply_to |-> prompt]),
     provider |-> Some(DEFAULT_LLM_PROVIDER), model |-> Some(OPENAI_MODEL)]

----------------------------------------------------------------------------
(* Persistence: what a successful commit writes *)

\* The columns process_reading assigns on success (lines 82-90, without the
\* measured processing_time_ms).
ResultColumns ==
    {"astrology_data", "numerology_data", "zodiac_data", "tarot_data",
     "interpretation", "llm_provider", "llm_model", "status"}

\* The unit of work flushes the attributes assigned since the object was
\* loaded: the row takes those columns from the session's object and keeps
\* the others.
Commit(row, reading, columns) ==
    [f \in DOMAIN row |-> IF f \in columns THEN reading[f] ELSE row[f]]

\* The column that holds a calculator's result (lines 82-85).
Blob(reading, c) ==
    CASE c = "astrology"  -> reading.astrology_data
      [] c = "numerology" -> reading.numerology_data
      [] c = "zodiac"     -> reading.zodiac_data
      [] c = "tarot"      -> reading.tarot_data

\* Lines 82-90 of process_reading: the results and COMPLETED on the object.
WithResults(reading, calculations, interpretation) ==
    [reading EXCEPT !.astrology_data  = calculations["astrology"],
                    !.numerology_data = calculations["numerology"],
                    !.zodiac_data     = calculations["zodiac"],
                    !.tarot_data      = calculations["tarot"],
                    !.interpretation  = interpretation.content,
                    !.llm_provider    = interpretation.provider,
                    !.llm_model       = interpretation.model,
                    !.status          = "completed"]

----------------------------------------------------------------------------
(* Initial state *)

Init ==
    /\ readings = <<>>
    /\ requested = <<>>
    /\ tasks = <<>>
    /\ response = None
    /\ preview = None
    /\ calls = {}
    /\ config = DefaultConfiguration
    /\ call = None
    /\ rng = 0
    /\ now = 0
    /\ redis = <<>>
    /\ dispatches = <<>>

\* One invocation of process_reading(reading_id), not yet started.
\*   pc: scheduled -> loaded -> processing -> awaiting_llm -> returned,
\*       or raised from any of them.
NewTask(reading_id) ==
    [reading_id |-> reading_id, pc |-> "scheduled", reading |-> None,
     calculations |-> NoCalculations, invoked |-> {}, raised |-> {},
     prompt |-> <<>>,
     exc |-> None]

----------------------------------------------------------------------------
(* POST /readings/full *)

\* Fault model: the endpoint schedules the background task before it knows
\* that create_reading succeeded.
CreateFullReadingSchedulingFirst(request, commit_ok) ==
    /\ Len(readings) < MaxReadings
    /\ Len(tasks) < MaxTasks
    /\ LET r == CreateReading(request)
       IN  IF r.exc # None
           THEN /\ response' = Some([status_code |-> Get(r.exc).status_code,
                                     detail |-> Get(r.exc).message])
                /\ calls' = Called("create", {"execute"})
                /\ tasks' = Append(tasks, NewTask(Len(readings) + 1))
                /\ UNCHANGED <<readings, requested>>
           ELSE IF ~commit_ok
           THEN /\ response' = Some([status_code |-> 500,
                                     detail |-> PersistenceError.message])
                /\ calls' = Called("create", {"execute", "add", "commit"})
                /\ UNCHANGED <<readings, requested, tasks>>
           ELSE /\ readings' = Append(readings, Get(r.val))
                /\ requested' = Append(requested, request)
                /\ tasks' = Append(tasks, NewTask(Len(readings) + 1))
                /\ response' = Some([status_code |-> 200, detail |-> "pending"])
                /\ calls' = Called("create", SessionOps)
    /\ call' = Some([fn |-> "create_full_reading", request |-> request])
    /\ UNCHANGED <<preview, config, rng,
                 now, redis, dispatches>>

\* create_full_reading: create_reading, then the background task, then the
\* pending response; an exception becomes the HTTP error and nothing is
\* inserted or scheduled.  commit_ok: whether create_reading's commit succeeds.
CreateFullReading(request, commit_ok) ==
    /\ Len(readings) < MaxReadings
    /\ Len(tasks) < MaxTasks
    /\ LET r == CreateReading(request)
       IN  IF r.exc # None
           THEN /\ response' = Some([status_code |-> Get(r.exc).status_code,
                                     detail |-> Get(r.exc).message])
                /\ calls' = Called("create", {"execute"})
                /\ UNCHANGED <<readings, requested, tasks>>
           ELSE IF ~commit_ok
           THEN /\ response' = Some([status_code |-> 500,
                                     detail |-> PersistenceError.message])
                /\ calls' = Called("create", {"execute", "add", "commit"})
                /\ UNCHANGED <<readings, requested, tasks>>
           ELSE /\ readings' = Append(readings, Get(r.val))
                /\ requested' = Append(requested, request)
                /\ tasks' = Append(tasks, NewTask(Len(readings) + 1))
                /\ response' = Some([status_code |-> 200, detail |-> "pending"])
                /\ calls' = Called("create", SessionOps)
    /\ call' = Some([fn |-> "create_full_reading", request |-> request])
    /\ UNCHANGED <<preview, config, rng,
                 now, redis, dispatches>>

\* What str() of the HTTPException raised for a missing reading gives: the
\* status and detail with the Starlette versions that define __str__, the
\* empty text with the ones that do not.
HTTPExceptionTexts == {"404: Reading not found", ""}

\* GET /readings/{reading_id}: the reading as the response; for a missing
\* reading the HTTPException(404) is raised inside the try block, is not a
\* MetaMysticException, and is caught by "except Exception", which raises
\* HTTPException(500, detail=str(e)).  detail of a 200 response stands for
\* the status field of the body.
GetReadingEndpoint(reading_id, text) ==
    /\ LET reading == GetReading(reading_id)
       IN  response' = IF reading = None
                       THEN Some([status_code |-> 500, detail |-> text])
                       ELSE Some([status_code |-> 200,
                                  detail |-> Get(reading).status])
    /\ call' = Some([fn |-> "get_reading", reading_id |-> reading_id])
    /\ calls' = Called("get", {"execute"})
    /\ UNCHANGED <<readings, requested, tasks, preview, config, rng,
                 now, redis, dispatches>>

\* A further call of process_reading(reading_id) by a caller of the service:
\* the method takes any id at any time.
InvokeProcess(reading_id) ==
    /\ Len(tasks) < MaxTasks
    /\ tasks' = Append(tasks, NewTask(reading_id))
    /\ UNCHANGED <<readings, requested, response, preview, calls, config, call, rng,
                 now, redis, dispatches>>

----------------------------------------------------------------------------
(* process_reading, one action per stretch between two awaits *)

\* Fault model: the except branch ends the call normally instead of
\* re-raising.
ExceptBranchSwallowing(t, reading, exc, session_ok, commit_ok) ==
    LET failed == [reading EXCEPT !.status = "failed"]
        rid == tasks[t].reading_id
    IN  /\ readings' = IF session_ok /\ commit_ok
                       THEN [readings EXCEPT ![rid] = Commit(@, failed, {"status"})]
                       ELSE readings
        /\ tasks' = [tasks EXCEPT ![t].pc = "returned", ![t].reading = Some(failed)]

\* Fault model: the except branch stores the calculator results of the pass
\* next to FAILED.
ExceptBranchKeepingResults(t, reading, exc, session_ok, commit_ok) ==
    LET calculations == tasks[t].calculations
        failed == [reading EXCEPT !.status = "failed",
                                  !.astrology_data  = calculations["astrology"],
                                  !.numerology_data = calculations["numerology"],
                                  !.zodiac_data     = calculations["zodiac"],
                                  !.tarot_data      = calculations["tarot"]]
        rid == tasks[t].reading_id
    IN  IF session_ok /\ commit_ok
        THEN /\ readings' = [readings EXCEPT ![rid] =
                                Commit(@, failed, {"status", "astrology_data",
                                       "numerology_data", "zodiac_data", "tarot_data"})]
             /\ tasks' = [tasks EXCEPT ![t].pc = "raised", ![t].reading = Some(failed),
                                       ![t].exc = Some(exc)]
        ELSE /\ readings' = readings
             /\ tasks' = [tasks EXCEPT ![t].pc = "raised", ![t].reading = Some(failed),
                                       ![t].exc = Some(PersistenceError)]

\* The except branch (lines 96-100): FAILED on the object, commit, re-raise.
\* session_ok is FALSE when the exception came from a commit of this session:
\* the code does not roll the session back, so this commit raises as well.
ExceptBranch(t, reading, exc, session_ok, commit_ok) ==
    LET failed == [reading EXCEPT !.status = "failed"]
        rid == tasks[t].reading_id
    IN  IF session_ok /\ commit_ok
        THEN /\ readings' = [readings EXCEPT ![rid] = Commit(@, failed, {"status"})]
             /\ tasks' = [tasks EXCEPT ![t].pc = "raised", ![t].reading = Some(failed),
                                       ![t].exc = Some(exc)]
        ELSE /\ readings' = readings
             /\ tasks' = [tasks EXCEPT ![t].pc = "raised", ![t].reading = Some(failed),
                                       ![t].exc = Some(PersistenceError)]

\* Lines 66-68: load the reading, or raise 404 before the try.
ProcessBegin(t) ==
    /\ t \in 1..Len(tasks)
    /\ tasks[t].pc = "scheduled"
    /\ LET found == GetReading(tasks[t].reading_id)
       IN  IF found = None
           THEN tasks' = [tasks EXCEPT ![t].pc = "raised",
                             ![t].exc = Some(MetaMysticException("Reading not found", 404))]
           ELSE tasks' = [tasks EXCEPT ![t].pc = "loaded", ![t].reading = found]
    /\ calls' = Called("process", {"execute"})
    /\ UNCHANGED <<readings, requested, response, preview, config, call, rng,
                 now, redis, dispatches>>

\* Lines 72-73: PROCESSING and its commit.
MarkProcessing(t, commit_ok) ==
    /\ t \in 1..Len(tasks)
    /\ tasks[t].pc = "loaded"
    /\ LET rid == tasks[t].reading_id
           reading == [Get(tasks[t].reading) EXCEPT !.status = "processing"]
       IN  IF commit_ok
           THEN /\ readings' = [readings EXCEPT ![rid] = Commit(@, reading, {"status"})]
                /\ tasks' = [tasks EXCEPT ![t].pc = "processing",
                                          ![t].reading = Some(reading)]
           ELSE ExceptBranch(t, reading, PersistenceError, FALSE, FALSE)
    /\ calls' = Called("process", {"commit"})
    /\ UNCHANGED <<requested, response, preview, config, call, rng,
                 now, redis, dispatches>>

\* Lines 76-79 up to the await of generate_response: the fan-out and the
\* prompt.  raises: the calculators that raise if they are called in this pass.
RunCalculations(t, raises) ==
    /\ t \in 1..Len(tasks)
    /\ tasks[t].pc = "processing"
    /\ LET reading == Get(tasks[t].reading)
           calculations == PerformCalculations(reading, None, raises)
       IN  /\ tasks' = [tasks EXCEPT ![t].pc = "awaiting_llm",
                         ![t].calculations = calculations,
                         ![t].invoked = Invoked(reading, None),
                         ![t].raised = raises \cap Invoked(reading, None),
                         ![t].prompt = InterpretationPrompt(reading, calculations)]
           /\ calls' = Called("process", Invoked(reading, None) \cup {"generate_response"})
    /\ UNCHANGED <<readings, requested, response, preview, config, call, rng,
                 now, redis, dispatches>>

\* The rest: the provider answers or fails; on an answer lines 82-94, on a
\* failure _get_ai_interpretation's LLMProviderError and the except branch.
FinishProcessing(t, llm_ok, commit_ok) ==
    /\ t \in 1..Len(tasks)
    /\ tasks[t].pc = "awaiting_llm"
    /\ LET rid == tasks[t].reading_id
           reading == Get(tasks[t].reading)
           done == WithResults(reading, tasks[t].calculations,
                               GenerateResponse(tasks[t].prompt))
       IN  IF ~llm_ok
           THEN ExceptBranch(t, reading, LLMProviderError("unknown"), TRUE, commit_ok)
           ELSE IF commit_ok
           THEN /\ readings' = [readings EXCEPT ![rid] = Commit(@, done, ResultColumns)]
                /\ tasks' = [tasks EXCEPT ![t].pc = "returned", ![t].reading = Some(done)]
           ELSE ExceptBranch(t, done, PersistenceError, FALSE, FALSE)
    /\ calls' = Called("process", {"commit"})
    /\ UNCHANGED <<requested, response, preview, config, call, rng,
                 now, redis, dispatches>>

----------------------------------------------------------------------------
(* preview_reading *)

\* The temporary Reading of preview_reading (lines 107-114): the request's
\* birth and question inputs, every other attribute unset.
TempReading(request) ==
    [partner_id      |-> None,
     persona_id      |-> None,
     deck_id         |-> None,
     spread_id       |-> None,
     birth_date      |-> Some(request.birth_date),
     birth_time      |-> request.birth_time,
     birth_location  |-> request.birth_location,
     birth_latitude  |-> request.birth_latitude,
     birth_longitude |-> request.birth_longitude,
     question        |-> request.question,
     status          |-> "unset",
     astrology_data  |-> None,
     numerology_data |-> None,
     zodiac_data     |-> None,
     tarot_data      |-> None,
     interpretation  |-> None,
     llm_provider    |-> None,
     llm_model       |-> None]

\* What one preview_reading call computed, sent and returned or raised.
PreviewOutcome(request, raises, llm_ok) ==
    LET reading == TempReading(request)
        calculations == PerformCalculations(reading, Some(request), raises)
        prompt == InterpretationPrompt(reading, calculations)
        interpretation == GenerateResponse(prompt)
    IN  [request |-> request,
         calculations |-> calculations,
         invoked |-> Invoked(reading, Some(request)),
         raised |-> raises \cap Invoked(reading, Some(request)),
         prompt |-> prompt,
         exc |-> IF llm_ok THEN None ELSE Some(LLMProviderError("unknown")),
         result |-> IF llm_ok
                    THEN Some([astrology_data  |-> calculations["astrology"],
                               numerology_data |-> calculations["numerology"],
                               zodiac_data     |-> calculations["zodiac"],
                               tarot_data      |-> calculations["tarot"],
                               interpretation  |-> interpretation.content,
                               llm_provider    |-> interpretation.provider,
                               llm_model       |-> interpretation.model])
                    ELSE None]

\* Fault model: preview_reading saves its temporary Reading (add, commit)
\* before the calculations.
PreviewReadingPersisting(request, raises, llm_ok) ==
    /\ preview' = Some(PreviewOutcome(request, raises, llm_ok))
    /\ calls' = Called("preview", {"add", "commit"}
                        \cup Invoked(TempReading(request), Some(request))
                        \cup {"generate_response"})
    /\ IF Len(readings) < MaxReadings
       THEN /\ readings' = Append(readings, TempReading(request))
            /\ requested' = Append(requested, request)
       ELSE UNCHANGED <<readings, requested>>
    /\ UNCHANGED <<tasks, response, config, call, rng,
                 now, redis, dispatches>>

\* preview_reading as a whole (lines 102-133): the temporary Reading is
\* never handed to the session, the calculators and the provider are the
\* only callees.
PreviewReading(request, raises, llm_ok) ==
    /\ preview' = Some(PreviewOutcome(request, raises, llm_ok))
    /\ calls' = Called("preview", Invoked(TempReading(request), Some(request))
                                   \cup {"generate_response"})
    /\ UNCHANGED <<readings, requested, tasks, response, config, call, rng,
                 now, redis, dispatches>>

----------------------------------------------------------------------------
(* Specification: the lifecycle of readings under repeated and concurrent  *)
(* process_reading calls, failing providers and failing commits            *)

Next ==
    \/ \E request \in Requests, commit_ok \in BOOLEAN :
          CreateFullReading(request, commit_ok)
    \/ \E reading_id \in 1..MaxReadings : InvokeProcess(reading_id)
    \/ \E t \in 1..MaxTasks : ProcessBegin(t)
    \/ \E t \in 1..MaxTasks, commit_ok \in BOOLEAN : MarkProcessing(t, commit_ok)
    \/ \E t \in 1..MaxTasks, raises \in Failures : RunCalculations(t, raises)
    \/ \E t \in 1..MaxTasks, llm_ok \in BOOLEAN, commit_ok \in BOOLEAN :
          FinishProcessing(t, llm_ok, commit_ok)

Spec == Init /\ [][Next]_vars

(* Specification: the calculator fan-out, one process_reading per reading   *)
(* as POST /readings/full schedules it, under every set of failing          *)
(* calculators                                                              *)

FanOutNext ==
    \/ \E request \in Requests, commit_ok \in BOOLEAN :
          CreateFullReading(request, commit_ok)
    \/ \E t \in 1..MaxTasks : ProcessBegin(t)
    \/ \E t \in 1..MaxTasks, commit_ok \in BOOLEAN : MarkProcessing(t, commit_ok)
    \/ \E t \in 1..MaxTasks, raises \in SUBSET Calcs : RunCalculations(t, raises)
    \/ \E t \in 1..MaxTasks, llm_ok \in BOOLEAN, commit_ok \in BOOLEAN :
          FinishProcessing(t, llm_ok, commit_ok)

FanOutSpec == Init /\ [][FanOutNext]_vars

(* Specification: preview_reading next to create and process for the same   *)
(* requests, with include flags set and cleared                             *)

PreviewNext ==
    \/ \E request \in PreviewRequests, commit_ok \in BOOLEAN :
          CreateFullReading(request, commit_ok)
    \/ \E t \in 1..MaxTasks : ProcessBegin(t)
    \/ \E t \in 1..MaxTasks, commit_ok \in BOOLEAN : MarkProcessing(t, commit_ok)
    \/ \E t \in 1..MaxTasks, raises \in Failures : RunCalculations(t, raises)
    \/ \E t \in 1..MaxTasks, llm_ok \in BOOLEAN, commit_ok \in BOOLEAN :
          FinishProcessing(t, llm_ok, commit_ok)
    \/ \E request \in PreviewRequests, raises \in Failures, llm_ok \in BOOLEAN :
          PreviewReading(request, raises, llm_ok)

PreviewSpec == Init /\ [][PreviewNext]_vars

(* Specification: POST /readings/full over every configuration of the     *)
(* tables and requests that name existing and missing rows                  *)

CreateInit ==
    /\ readings = <<>>
    /\ requested = <<>>
    /\ tasks = <<>>
    /\ response = None
    /\ preview = None
    /\ calls = {}
    /\ config \in Configurations
    /\ call = None
    /\ rng = 0
    /\ now = 0
    /\ redis = <<>>
    /\ dispatches = <<>>

CreateNext ==
    \/ \E request \in CreateRequests, commit_ok \in BOOLEAN :
          CreateFullReading(request, commit_ok)
    \/ \E t \in 1..MaxTasks : ProcessBegin(t)
    \/ \E reading_id \in 1..(MaxReadings + 1), text \in HTTPExceptionTexts :
          GetReadingEndpoint(reading_id, text)

CreateSpec == CreateInit /\ [][CreateNext]_vars

(* Specification: create and process over requests that name either spread *)
(* and deck, with birth coordinates on and off the equator and the prime   *)
(* meridian                                                                 *)

\* Requests of the inputs specification: latitude and longitude are any
\* numbers in range, 0 included; spread and deck exist.
InputRequests ==
    { [r EXCEPT !.deck_slug = d, !.spread_slug = l] :
        r \in ReadingRequest({Some("14:30")}, {Some(40), Some(0)},
                             {Some(-74), Some(0)}, {Some("Ann")}, {Some("acme")},
                             {Some("Will I travel?")}, {Calcs}),
        d \in {None, Some("thoth")},
        l \in {"three_card", "one_card"} }

InputsNext ==
    \/ \E request \in InputRequests, commit_ok \in BOOLEAN :
          CreateFullReading(request, commit_ok)
    \/ \E t \in 1..MaxTasks : ProcessBegin(t)
    \/ \E t \in 1..MaxTasks, commit_ok \in BOOLEAN : MarkProcessing(t, commit_ok)
    \/ \E t \in 1..MaxTasks : RunCalculations(t, {})
    \/ \E t \in 1..MaxTasks, llm_ok \in BOOLEAN, commit_ok \in BOOLEAN :
          FinishProcessing(t, llm_ok, commit_ok)

InputsSpec == Init /\ [][InputsNext]_vars

(* Specification: format_reading_prompt over every subset of present       *)
(* calculator results, with and without question, partner stub and persona  *)

\* The state of a core function called on its own: no service state.
CoreInit == Init

\* The persona configurations _get_ai_interpretation can hand over.
PersonaConfigs ==
    { None,
      Some([voice_style |-> Some("mystical"), tone |-> Some("warm"),
            prompt_prefix |-> None, prompt_suffix |-> None]),
      Some([voice_style |-> None, tone |-> None,
            prompt_prefix |-> None, prompt_suffix |-> None]) }

\* One call of format_reading_prompt: the results of the calculators in
\* present, None for the others.
FormatPromptCall(present, question, partner_prompt_stub, persona_config) ==
    /\ LET data == [c \in Calcs |->
                      IF c \in present THEN Some([calculator |-> c]) ELSE None]
       IN  call' = Some([fn |-> "format_reading_prompt",
                         present |-> present,
                         question |-> question,
                         partner_prompt_stub |-> partner_prompt_stub,
                         persona_config |-> persona_config,
                         result |-> FormatReadingPrompt(
                                       data["astrology"], data["numerology"],
                                       data["zodiac"], data["tarot"], question,
                                       partner_prompt_stub, persona_config)])
    /\ UNCHANGED <<readings, requested, tasks, response, preview, calls, config, rng,
                 now, redis, dispatches>>

PromptNext ==
    \E present \in SUBSET Calcs,
       question \in {None, Some(""), Some("Will I travel?")},
       partner_prompt_stub \in {None, Some("You are the MetaMystic oracle.")},
       persona_config \in PersonaConfigs :
          FormatPromptCall(present, question, partner_prompt_stub, persona_config)

PromptSpec == CoreInit /\ [][PromptNext]_vars

(* LLM provider factory: get_llm_provider *)

\* The names the factory maps to a provider class.
Providers == {"openai", "anthropic", "google", "meta"}

\* The settings the providers read: three API keys and the GPT4Free host,
\* each unset (None) or set; the model names keep their defaults.
SettingsChoices ==
    [OPENAI_API_KEY : {None, Some("sk-o")}, ANTHROPIC_API_KEY : {None, Some("sk-a")},
     GOOGLE_API_KEY : {None, Some("sk-g")}, GPT4FREE_HOST : {None, Some("http://g4f")}]

\* X_MODEL of the settings.
SettingsModel(provider_name) ==
    CASE provider_name = "openai"    -> Some(OPENAI_MODEL)
      [] provider_name = "anthropic" -> Some("claude-3-sonnet-20240229")
      [] provider_name = "google"    -> Some("gemini-pro")
      [] provider_name = "meta"      -> Some("llama-2-70b-chat")

\* X_API_KEY of the settings (meta has none).
SettingsApiKey(provider_name, settings) ==
    CASE provider_name = "openai"    -> settings.OPENAI_API_KEY
      [] provider_name = "anthropic" -> settings.ANTHROPIC_API_KEY
      [] provider_name = "google"    -> settings.GOOGLE_API_KEY
      [] provider_name = "meta"      -> None

\* provider_class(api_key=api_key, model=model): the instance, or the
\* LLMProviderError of a constructor that finds no key (no host, for meta).
ProviderInit(provider_name, api_key, model, settings) ==
    LET key == IF provider_name = "meta" THEN api_key
               ELSE IF TruthyStr(api_key) THEN api_key
               ELSE SettingsApiKey(provider_name, settings)
        instance == [name |-> provider_name,
                     api_key |-> key,
                     model |-> IF TruthyStr(model) THEN model
                               ELSE SettingsModel(provider_name),
                     gpt4free_host |-> IF provider_name = "meta"
                                       THEN settings.GPT4FREE_HOST ELSE None]
    IN  IF provider_name = "meta"
        THEN IF ~TruthyStr(instance.gpt4free_host)
             THEN Raise(LLMProviderError("meta")) ELSE Return(instance)
        ELSE IF ~TruthyStr(key)
             THEN Raise(LLMProviderError(provider_name)) ELSE Return(instance)

\* validate_config of the four providers.
ValidateConfig(provider) ==
    IF provider.name = "meta"
    THEN TruthyStr(provider.gpt4free_host) /\ TruthyStr(provider.model)
    ELSE TruthyStr(provider.api_key) /\ TruthyStr(provider.model)

\* Fault model: the factory hands out whatever instance it can build, the
\* constructors no longer insisting on a key or host.
GetLlmProviderUnvalidated(provider_name, api_key, model, settings) ==
    LET name == IF TruthyStr(provider_name) THEN Get(provider_name)
                ELSE DEFAULT_LLM_PROVIDER
    IN  IF name \notin Providers
        THEN Raise(LLMProviderError(name))
        ELSE Return([name |-> name, api_key |-> api_key, model |-> model,
                     gpt4free_host |-> None])

\* get_llm_provider (factory.py 16-70).
GetLlmProvider(provider_name, api_key, model, settings) ==
    LET name == IF TruthyStr(provider_name) THEN Get(provider_name)
                ELSE DEFAULT_LLM_PROVIDER
    IN  IF name \notin Providers
        THEN Raise(LLMProviderError(name))
        ELSE LET provider == ProviderInit(name, api_key, model, settings)
             IN  IF provider.exc # None
                 THEN provider
                 ELSE IF ~ValidateConfig(Get(provider.val))
                      THEN Raise(LLMProviderError(name))
                      ELSE provider

\* One call of get_llm_provider under some settings; the factory calls the
\* constructor and validate_config, never generate_response.
GetLlmProviderCall(provider_name, api_key, settings) ==
    /\ LET result == GetLlmProvider(provider_name, api_key, None, settings)
       IN  /\ call' = Some([fn |-> "get_llm_provider",
                            provider_name |-> provider_name,
                            api_key |-> api_key,
                            settings |-> settings,
                            result |-> result])
           /\ calls' = Called("get_llm_provider",
                              IF result.exc = None THEN {"__init__", "validate_config"}
                              ELSE {"__init__"})
    /\ UNCHANGED <<readings, requested, tasks, response, preview, config, rng,
                 now, redis, dispatches>>

(* Specification: get_llm_provider for supported, unsupported and missing   *)
(* names under every combination of configured credentials                  *)

FactoryNext ==
    \E provider_name \in {None} \cup {Some(n) : n \in Providers \cup {"invalid_provider"}},
       api_key \in {None, Some("sk-arg")},
       settings \in SettingsChoices :
          GetLlmProviderCall(provider_name, api_key, settings)

FactorySpec == CoreInit /\ [][FactoryNext]_vars

(* The interpretation step with a failing backend *)

\* The ways a backend's generate call fails.
BackendFailures == {"authentication", "rate_limit", "timeout", "malformed_response"}

\* provider.generate_response(prompt): the response dict, or, whatever the
\* failure, the LLMProviderError of the except clauses of the provider.
ProviderGenerateResponse(provider, prompt, failure) ==
    IF failure \in BackendFailures
    THEN Raise(LLMProviderError(provider.name))
    ELSE Return([content |-> Some([reply_to |-> prompt]),
                 provider |-> Some(provider.name), model |-> provider.model])

\* _get_ai_interpretation (lines 214-257): the provider of the settings'
\* DEFAULT_LLM_PROVIDER, the prompt, the generate call; any exception of the
\* three, the provider's own LLMProviderError included, is replaced by a new
\* LLMProviderError("unknown", ...).
GetAiInterpretation(reading, calculations, default_provider, settings, failure) ==
    LET provider == GetLlmProvider(Some(default_provider), None, None, settings)
        generated == ProviderGenerateResponse(Get(provider.val),
                        InterpretationPrompt(reading, calculations), failure)
    IN  IF provider.exc # None THEN Raise(LLMProviderError("unknown"))
        ELSE IF generated.exc # None THEN Raise(LLMProviderError("unknown"))
        ELSE generated

\* One call of _get_ai_interpretation for a reading as preview_reading
\* builds it, with the results of the calculators in present.
GetAiInterpretationCall(request, present, default_provider, settings, failure) ==
    /\ LET reading == TempReading(request)
           calculations == [c \in Calcs |->
                              IF c \in present
                              THEN Some(CalculatorResult(c, reading, Some(request)))
                              ELSE None]
           provider == GetLlmProvider(Some(default_provider), None, None, settings)
       IN  /\ call' = Some([fn |-> "_get_ai_interpretation",
                            present |-> present,
                            default_provider |-> default_provider,
                            settings |-> settings,
                            failure |-> failure,
                            generate_called |-> provider.exc = None,
                            result |-> GetAiInterpretation(reading, calculations,
                                          default_provider, settings, failure)])
           /\ calls' = Called("_get_ai_interpretation",
                              IF provider.exc = None
                              THEN {"get_llm_provider", "generate_response"}
                              ELSE {"get_llm_provider"})
    /\ UNCHANGED <<readings, requested, tasks, response, preview, config, rng,
                 now, redis, dispatches>>

(* Specification: _get_ai_interpretation over every default provider,       *)
(* configured or not, whose generate call answers or fails                  *)

InterpretationNext ==
    \E request \in Requests, present \in {{}, Calcs},
       default_provider \in Providers, settings \in SettingsChoices,
       failure \in BackendFailures \cup {"none"} :
          GetAiInterpretationCall(request, present, default_provider, settings, failure)

InterpretationSpec == CoreInit /\ [][InterpretationNext]_vars

(* Tarot: core/tarot.py *)

\* The generator of the random module, reduced to RngModulus states.
RngStates == 0..(RngModulus - 1)

\* random.seed(seed): the state depends on the seed alone.
RandomSeed(seed) == seed % RngModulus

\* The state after one number has been taken.
RngStep(r) == (5 * r + 3) % RngModulus

\* The integer below n that state r yields (n > 0).
RandBelow(n, r) == r % n

\* random.random() < settings.REVERSAL_PROBABILITY, the probability being one half.
RandomBelowReversalProbability(r) == 2 * r < RngModulus

\* The files under data/decks: slug |-> content of <slug>.json.
DeckFiles ==
    [rider_waite_smith |->
        [name |-> "Rider-Waite-Smith",
         cards |-> << [name |-> "The Fool"], [name |-> "The Magician"],
                      [name |-> "The High Priestess"], [name |-> "The Empress"] >>],
     mini |->
        [name |-> "Mini",
         cards |-> << [name |-> "The Sun"], [name |-> "The Moon"] >>]]

\* The files partners/<slug>/deck/deck.json.
PartnerDeckFiles ==
    [acme |->
        [name |-> "Acme",
         cards |-> << [name |-> "Anvil"], [name |-> "Rocket"], [name |-> "Magnet"] >>]]

\* The files under data/spreads: slug |-> the "spreads" list of <slug>.json.
\* load_spread checks nothing about a spread it finds: two_paths asks for
\* two cards and lays out one position.
SpreadFiles ==
    [default |->
        << [slug |-> "one_card", card_count |-> 1, positions |-> <<"Guidance">>] >>,
     two_paths |->
        << [slug |-> "two_paths", card_count |-> 2, positions |-> <<"Path">>] >>]

\* get_default_spread: the built-in spreads, three_card for any other slug.
GetDefaultSpread(spread_slug) ==
    CASE spread_slug = "one_card" ->
           [slug |-> "one_card", card_count |-> 1, positions |-> <<"Guidance">>]
      [] spread_slug = "celtic_cross" ->
           [slug |-> "celtic_cross", card_count |-> 10,
            positions |-> <<"Present Situation", "Challenge", "Distant Past",
                            "Recent Past", "Possible Outcome", "Near Future",
                            "Your Approach", "External Influences",
                            "Hopes and Fears", "Final Outcome">>]
      [] OTHER ->
           [slug |-> "three_card", card_count |-> 3,
            positions |-> <<"Past", "Present", "Future">>]

\* load_spread: the file of the slug, else default.json; the spread of that
\* slug in the file, else the built-in one.
LoadSpread(spread_slug) ==
    LET file == IF spread_slug \in DOMAIN SpreadFiles THEN spread_slug ELSE "default"
    IN  IF file \notin DOMAIN SpreadFiles
        THEN Raise(CalculationError("tarot"))
        ELSE LET spreads == SpreadFiles[file]
                 found == {i \in 1..Len(spreads) : spreads[i].slug = spread_slug}
             IN  IF found # {}
                 THEN Return(spreads[CHOOSE i \in found : \A j \in found : i <= j])
                 ELSE Return(GetDefaultSpread(spread_slug))

\* load_deck: the partner's deck file if there is one, else the file of the
\* slug (the default slug when none is given), else rider_waite_smith.json.
LoadDeck(deck_slug, partner_slug) ==
    LET slug == IF TruthyStr(deck_slug) THEN Get(deck_slug) ELSE DEFAULT_TAROT_DECK
    IN  IF TruthyStr(partner_slug) /\ Get(partner_slug) \in DOMAIN PartnerDeckFiles
        THEN Return(PartnerDeckFiles[Get(partner_slug)])
        ELSE IF slug \in DOMAIN DeckFiles THEN Return(DeckFiles[slug])
        ELSE IF "rider_waite_smith" \in DOMAIN DeckFiles
             THEN Return(DeckFiles["rider_waite_smith"])
             ELSE Raise(CalculationError("tarot"))

\* random.shuffle(x) from position i down (CPython: for i from the last index
\* down to the second, swap x[i] with x[randbelow(i + 1)]); positions from 1.
RECURSIVE Shuffle(_, _, _)
Shuffle(x, i, r) ==
    IF i < 2 THEN [cards |-> x, rng |-> r]
    ELSE LET j == RandBelow(i, r) + 1
             swapped == [x EXCEPT ![i] = x[j], ![j] = x[i]]
         IN  Shuffle(swapped, i - 1, RngStep(r))

\* The loop of draw_cards that gives each drawn card its orientation, from
\* card k on.
RECURSIVE Orient(_, _, _)
Orient(drawn, k, r) ==
    IF k > Len(drawn) THEN [cards |-> drawn, rng |-> r]
    ELSE Orient([drawn EXCEPT ![k] = [name |-> drawn[k].name,
                                      reversed |-> RandomBelowReversalProbability(r)]],
                k + 1, RngStep(r))

\* Fault model: draw_cards without the check of the deck size; the slice is
\* as long as the deck allows.
DrawCardsUnchecked(deck, count, r) ==
    LET shuffled == Shuffle(deck.cards, Len(deck.cards), r)
        drawn == SubSeq(shuffled.cards, 1,
                        IF count < Len(deck.cards) THEN count ELSE Len(deck.cards))
        oriented == Orient(drawn, 1, shuffled.rng)
    IN  [exc |-> None, val |-> Some(oriented.cards), rng |-> oriented.rng]

\* draw_cards: the error for a deck that is too small, else the first count
\* cards of the shuffled deck, each with its orientation; rng is the state
\* of the generator afterwards.
DrawCards(deck, count, r) ==
    IF Len(deck.cards) < count
    THEN [exc |-> Some(CalculationError("tarot")), val |-> None, rng |-> r]
    ELSE LET shuffled == Shuffle(deck.cards, Len(deck.cards), r)
             oriented == Orient(SubSeq(shuffled.cards, 1, count), 1, shuffled.rng)
         IN  [exc |-> None, val |-> Some(oriented.cards), rng |-> oriented.rng]

\* apply_spread_positions: card i with position i, for the cards that have a
\* position; index counts from 0.
ApplySpreadPositions(cards, spread) ==
    LET n == IF Len(cards) < Len(spread.positions)
             THEN Len(cards) ELSE Len(spread.positions)
    IN  [i \in 1..n |->
            [name |-> cards[i].name, reversed |-> cards[i].reversed,
             position |-> [index |-> i - 1, name |-> spread.positions[i]]]]

\* Fault model: draw_tarot_reading without random.seed(seed).
DrawTarotReadingUnseeded(spread_slug, deck_slug, partner_slug, seed, r) ==
    LET spread == LoadSpread(spread_slug)
        deck == LoadDeck(deck_slug, partner_slug)
        drawn == DrawCards(Get(deck.val), Get(spread.val).card_count, r)
    IN  IF spread.exc # None \/ deck.exc # None
        THEN [exc |-> Some(CalculationError("tarot")), val |-> None, rng |-> r]
        ELSE IF drawn.exc # None
        THEN [exc |-> Some(CalculationError("tarot")), val |-> None, rng |-> r]
        ELSE [exc |-> None,
              val |-> Some([spread |-> Get(spread.val),
                            deck |-> [slug |-> IF TruthyStr(deck_slug)
                                               THEN Get(deck_slug)
                                               ELSE DEFAULT_TAROT_DECK,
                                      name |-> Get(deck.val).name],
                            cards |-> ApplySpreadPositions(Get(drawn.val),
                                                           Get(spread.val)),
                            seed |-> seed, partner_slug |-> partner_slug]),
              rng |-> drawn.rng]

\* draw_tarot_reading (lines 16-75): seed the generator when a seed is
\* given, load spread and deck, draw, lay out; every exception leaves as a
\* CalculationError for tarot.  rng is the state of the generator afterwards.
DrawTarotReading(spread_slug, deck_slug, partner_slug, seed, r) ==
    LET seeded == IF seed # None THEN RandomSeed(Get(seed)) ELSE r
        spread == LoadSpread(spread_slug)
        deck == LoadDeck(deck_slug, partner_slug)
        drawn == DrawCards(Get(deck.val), Get(spread.val).card_count, seeded)
    IN  IF spread.exc # None \/ deck.exc # None
        THEN [exc |-> Some(CalculationError("tarot")), val |-> None, rng |-> seeded]
        ELSE IF drawn.exc # None
        THEN [exc |-> Some(CalculationError("tarot")), val |-> None, rng |-> seeded]
        ELSE [exc |-> None,
              val |-> Some([spread |-> Get(spread.val),
                            deck |-> [slug |-> IF TruthyStr(deck_slug)
                                               THEN Get(deck_slug)
                                               ELSE DEFAULT_TAROT_DECK,
                                      name |-> Get(deck.val).name],
                            cards |-> ApplySpreadPositions(Get(drawn.val),
                                                           Get(spread.val)),
                            seed |-> seed, partner_slug |-> partner_slug]),
              rng |-> drawn.rng]

\* One call of draw_tarot_reading; it reads and writes the generator every
\* draw of the process shares.
DrawTarotReadingCall(spread_slug, deck_slug, partner_slug, seed) ==
    /\ LET result == DrawTarotReading(spread_slug, deck_slug, partner_slug, seed, rng)
       IN  /\ call' = Some([fn |-> "draw_tarot_reading",
                            spread_slug |-> spread_slug,
                            deck_slug |-> deck_slug,
                            partner_slug |-> partner_slug,
                            seed |-> seed,
                            exc |-> result.exc,
                            val |-> result.val])
           /\ rng' = result.rng
    /\ UNCHANGED <<readings, requested, tasks, response, preview, calls, config,
                 now, redis, dispatches>>

(* Specification: tarot draws, seeded and unseeded, in any order, from any  *)
(* initial state of the generator                                           *)

TarotInit ==
    /\ readings = <<>>
    /\ requested = <<>>
    /\ tasks = <<>>
    /\ response = None
    /\ preview = None
    /\ calls = {}
    /\ config = DefaultConfiguration
    /\ call = None
    /\ rng \in RngStates
    /\ now = 0
    /\ redis = <<>>
    /\ dispatches = <<>>

\* The arguments of the draws of the tarot specification.
TarotSpreadSlugs == {"one_card", "three_card", "celtic_cross", "two_paths"}

TarotDeckSlugs == {None, Some("mini"), Some("lenormand")}

TarotPartnerSlugs == {None, Some("acme")}

TarotSeeds == {None, Some(7), Some(12345)}

TarotNext ==
    \E spread_slug \in TarotSpreadSlugs, deck_slug \in TarotDeckSlugs,
       partner_slug \in TarotPartnerSlugs, seed \in TarotSeeds :
          DrawTarotReadingCall(spread_slug, deck_slug, partner_slug, seed)

TarotSpec == TarotInit /\ [][TarotNext]_vars

----------------------------------------------------------------------------
(* core/numerology.py: reduction to a single digit and the life-path number *)

\* The largest number handed to reduce_to_single_digit.
MaxNumber == 400

\* str(number) for a non-negative number, as the sequence of its digits.
RECURSIVE DigitsOf(_)
DigitsOf(number) ==
    IF number < 10 THEN <<number>>
    ELSE Append(DigitsOf(number \div 10), number % 10)

\* f"{n:02d}": the digits of n, with a leading zero below 10.
Format02d(n) == IF n < 10 THEN <<0>> \o DigitsOf(n) ELSE DigitsOf(n)

\* sum(int(digit) for digit in text)
RECURSIVE SumDigits(_)
SumDigits(text) ==
    IF text = <<>> THEN 0 ELSE Head(text) + SumDigits(Tail(text))

MASTER_NUMBERS == {11, 22, 33}

\* Fault model: one pass of the digit sum instead of the loop.
ReduceToSingleDigitOnce(number, keep_master) ==
    IF number > 9 /\ ~(keep_master /\ number \in MASTER_NUMBERS)
    THEN SumDigits(DigitsOf(number))
    ELSE number

\* reduce_to_single_digit: while the number is above 9 (and not a master
\* number that is to be kept), replace it by the sum of its digits.
RECURSIVE ReduceToSingleDigit(_, _)
ReduceToSingleDigit(number, keep_master) ==
    IF number > 9 /\ ~(keep_master /\ number \in MASTER_NUMBERS)
    THEN ReduceToSingleDigit(SumDigits(DigitsOf(number)), keep_master)
    ELSE number

\* Fault model: the life-path number from the sum of month, day and year
\* instead of the sum of the digits of the date string.
CalculateLifePathNumberSummingParts(birth_date) ==
    LET date_str == Format02d(birth_date.month) \o Format02d(birth_date.day)
                      \o DigitsOf(birth_date.year)
        total == birth_date.month + birth_date.day + birth_date.year
        reduced == ReduceToSingleDigit(total, TRUE)
    IN  [number |-> reduced, date_str |-> date_str, total |-> total,
         is_master |-> reduced \in MASTER_NUMBERS]

\* calculate_life_path_number: the digits of MMDDYYYY summed and reduced,
\* master numbers kept.  date_str and total are the parts of the
\* "calculation" text; the "meaning" text is left out.
CalculateLifePathNumber(birth_date) ==
    LET date_str == Format02d(birth_date.month) \o Format02d(birth_date.day)
                      \o DigitsOf(birth_date.year)
        total == SumDigits(date_str)
        reduced == ReduceToSingleDigit(total, TRUE)
    IN  [number |-> reduced, date_str |-> date_str, total |-> total,
         is_master |-> reduced \in MASTER_NUMBERS]

ReduceToSingleDigitCall(number, keep_master) ==
    /\ call' = Some([fn |-> "reduce_to_single_digit", number |-> number,
                     keep_master |-> keep_master,
                     val |-> ReduceToSingleDigit(number, keep_master)])
    /\ UNCHANGED <<readings, requested, tasks, response, preview, calls, config, rng,
                 now, redis, dispatches>>

CalculateLifePathNumberCall(birth_date) ==
    /\ call' = Some([fn |-> "calculate_life_path_number",
                     birth_date |-> birth_date,
                     val |-> CalculateLifePathNumber(birth_date)])
    /\ UNCHANGED <<readings, requested, tasks, response, preview, calls, config, rng,
                 now, redis, dispatches>>

(* Specification: calls of the numerology functions *)

\* The birth dates of the life-path calls.
BirthDates == [year : {1984, 1990, 2000}, month : 1..12, day : {1, 15, 28}]

NumerologyNext ==
    \/ \E number \in 1..MaxNumber, keep_master \in BOOLEAN :
          ReduceToSingleDigitCall(number, keep_master)
    \/ \E birth_date \in BirthDates : CalculateLifePathNumberCall(birth_date)

NumerologySpec == CoreInit /\ [][NumerologyNext]_vars

----------------------------------------------------------------------------
(* core/zodiac.py: animal and element of a year *)

\* Years up to this far before and after the base year are looked up.
YearSpan == 70

base_year == 1924

animals ==
    <<"Rat", "Ox", "Tiger", "Rabbit", "Dragon", "Snake",
      "Horse", "Goat", "Monkey", "Rooster", "Dog", "Pig">>

elements == <<"Wood", "Fire", "Earth", "Metal", "Water">>

\* get_zodiac_animal: Python's % has the sign of the divisor, as % here;
\* the lists count from 0.
GetZodiacAnimal(year) ==
    LET index == (year - base_year) % 12
    IN  animals[index + 1]

\* Fault model: the element changes every year instead of every two years.
GetZodiacElementYearly(year) ==
    LET cycle_position == (year - base_year) % 10
        index == cycle_position % 5
    IN  elements[index + 1]

\* get_zodiac_element
GetZodiacElement(year) ==
    LET cycle_position == (year - base_year) % 10
        index == cycle_position \div 2
    IN  elements[index + 1]

GetZodiacAnimalCall(year) ==
    /\ call' = Some([fn |-> "get_zodiac_animal", year |-> year,
                     val |-> GetZodiacAnimal(year)])
    /\ UNCHANGED <<readings, requested, tasks, response, preview, calls, config, rng,
                 now, redis, dispatches>>

GetZodiacElementCall(year) ==
    /\ call' = Some([fn |-> "get_zodiac_element", year |-> year,
                     val |-> GetZodiacElement(year)])
    /\ UNCHANGED <<readings, requested, tasks, response, preview, calls, config, rng,
                 now, redis, dispatches>>

(* Specification: calls of the zodiac functions *)

Years == (base_year - YearSpan)..(base_year + YearSpan)

ZodiacNext ==
    \/ \E year \in Years : GetZodiacAnimalCall(year)
    \/ \E year \in Years : GetZodiacElementCall(year)

ZodiacSpec == CoreInit /\ [][ZodiacNext]_vars

----------------------------------------------------------------------------
(* middleware/rate_limit.py: RateLimitMiddleware over Redis sorted sets *)

\* The clock advances in steps of TickSeconds up to MaxNow.
TickSeconds == 10

MaxNow == 60

\* At most MaxDispatches requests arrive, at most MaxInFlight of them are
\* inside check_rate_limit at a time.
MaxDispatches == 6

MaxInFlight == 2

\* The window of check_rate_limit and the expiry it gives the key.
WindowSeconds == 60

\* Paths are sequences of segments: "/api/v1/readings/full" is
\* <<"api", "v1", "readings", "full">>.
StartsWith(path, prefix) ==
    /\ Len(prefix) <= Len(path)
    /\ SubSeq(path, 1, Len(prefix)) = prefix

\* self.rate_limits, in the order of the dictionary; the "default" entry is
\* no prefix of a path.
rate_limits ==
    << [prefix |-> <<"api", "v1", "auth">>,     limit |-> 10],
       [prefix |-> <<"api", "v1", "readings">>, limit |-> 5],
       [prefix |-> <<"api", "v1", "admin">>,    limit |-> 20] >>

DefaultRateLimit == 60

\* get_rate_limit: the limit of the first prefix the path starts with.
GetRateLimit(path) ==
    LET matching == {i \in 1..Len(rate_limits) : StartsWith(path, rate_limits[i].prefix)}
    IN  IF matching = {} THEN DefaultRateLimit
        ELSE rate_limits[CHOOSE i \in matching : \A j \in matching : i <= j].limit

\* The paths dispatch passes on without a check.
UnlimitedPaths == {<<"health">>, <<>>, <<"docs">>, <<"redoc">>}

\* get_client_identifier: the authorization header if there is one, else the
\* first address of x-forwarded-for, else the address of the peer.
GetClientIdentifier(request) ==
    IF TruthyStr(request.authorization)
    THEN <<"user", Get(request.authorization)>>
    ELSE IF TruthyStr(request.forwarded_for)
    THEN <<"ip", Get(request.forwarded_for)>>
    ELSE <<"ip", request.client_host>>

\* Redis commands on sorted sets; a key with no member does not exist.
ZSet(key) == IF key \in DOMAIN redis THEN redis[key].zset ELSE {}

Store(db, key, zset, expires) ==
    IF zset = {} THEN [k \in DOMAIN db \ {key} |-> db[k]]
    ELSE [k \in DOMAIN db \cup {key} |->
             IF k = key THEN [zset |-> zset, expires |-> expires] ELSE db[k]]

Expiry(key) == IF key \in DOMAIN redis THEN redis[key].expires ELSE None

\* ZREMRANGEBYSCORE key min max
ZRemRangeByScore(key, min, max) ==
    Store(redis, key, {e \in ZSet(key) : ~(min <= e.score /\ e.score <= max)},
          Expiry(key))

\* ZCARD key
ZCard(key) == Cardinality(ZSet(key))

\* ZADD key score member: a member the set holds already keeps its place in
\* the set and takes the new score.
ZAdd(key, member, score) ==
    Store(redis, key,
          {e \in ZSet(key) : e.member # member}
             \cup {[member |-> member, score |-> score]},
          Expiry(key))

\* EXPIRE key seconds
Expire(key, seconds) ==
    IF key \in DOMAIN redis
    THEN [redis EXCEPT ![key].expires = Some(now + seconds)]
    ELSE redis

\* The key of check_rate_limit: f"rate_limit:{client_id}:{path}".
RateLimitKey(d) == <<"rate_limit", d.client_id, d.path>>

InFlight == {i \in 1..Len(dispatches) : dispatches[i].pc # "done"}

RateLimitFrame ==
    UNCHANGED <<readings, requested, tasks, response, preview, calls, config,
                call, rng>>

\* dispatch up to the first command of check_rate_limit: the paths that are
\* not limited pass; else client, limit, the time, and ZREMRANGEBYSCORE.  When
\* Redis cannot be reached the exception handler allows the request.
\* dispatches holds the requests that went on to the count: status is 0
\* inside check_rate_limit, then 200 for a request that was passed on to
\* the application and 429 for one that was rejected; current_requests is a
\* local of check_rate_limit and 0 outside it.
Dispatch(request, path, reachable) ==
    /\ Len(dispatches) < MaxDispatches
    /\ Cardinality(InFlight) < MaxInFlight
    /\ LET d == [client_id |-> GetClientIdentifier(request), path |-> path,
                 limit |-> GetRateLimit(path), current_time |-> now,
                 current_requests |-> 0, pc |-> "removed", status |-> 0]
       IN  IF path \in UnlimitedPaths \/ ~reachable
           THEN UNCHANGED <<redis, dispatches>>
           ELSE /\ dispatches' = Append(dispatches, d)
                /\ redis' = ZRemRangeByScore(RateLimitKey(d), 0,
                                             now - WindowSeconds)
    /\ now' = now
    /\ RateLimitFrame

\* ZCARD: the requests counted in the window.
CountRequests(i) ==
    /\ i \in 1..Len(dispatches)
    /\ dispatches[i].pc = "removed"
    /\ dispatches' = [dispatches EXCEPT
                         ![i].current_requests = ZCard(RateLimitKey(dispatches[i])),
                         ![i].pc = "counted"]
    /\ UNCHANGED <<now, redis>>
    /\ RateLimitFrame

\* Below the limit: ZADD of the member str(current_time) with the score
\* current_time.
AddRequest(i) ==
    /\ i \in 1..Len(dispatches)
    /\ dispatches[i].pc = "counted"
    /\ dispatches[i].current_requests < dispatches[i].limit
    /\ redis' = ZAdd(RateLimitKey(dispatches[i]),
                     DigitsOf(dispatches[i].current_time),
                     dispatches[i].current_time)
    /\ dispatches' = [dispatches EXCEPT ![i].pc = "added"]
    /\ now' = now
    /\ RateLimitFrame

\* At the limit: ZRANGE for the oldest entry and the 429 response; with no
\* entry left reset_time is unbound, and the exception handler allows the
\* request.
RejectRequest(i) ==
    /\ i \in 1..Len(dispatches)
    /\ dispatches[i].pc = "counted"
    /\ dispatches[i].current_requests >= dispatches[i].limit
    /\ dispatches' = [dispatches EXCEPT
                         ![i].pc = "done", ![i].current_requests = 0,
                         ![i].status = IF ZSet(RateLimitKey(dispatches[i])) # {}
                                       THEN 429 ELSE 200]
    /\ UNCHANGED <<now, redis>>
    /\ RateLimitFrame

\* EXPIRE, and the request goes on to the application.
ExpireAndPass(i) ==
    /\ i \in 1..Len(dispatches)
    /\ dispatches[i].pc = "added"
    /\ redis' = Expire(RateLimitKey(dispatches[i]), WindowSeconds)
    /\ dispatches' = [dispatches EXCEPT ![i].pc = "done", ![i].status = 200,
                                        ![i].current_requests = 0]
    /\ now' = now
    /\ RateLimitFrame

\* Time passes; Redis drops the keys whose expiry has come.
Tick ==
    /\ now + TickSeconds <= MaxNow
    /\ now' = now + TickSeconds
    /\ redis' = [k \in {k \in DOMAIN redis :
                          redis[k].expires = None
                          \/ Get(redis[k].expires) > now + TickSeconds} |->
                    redis[k]]
    /\ dispatches' = dispatches
    /\ RateLimitFrame

(* Specification: requests of one client passing the rate limiter, several *)
(* of them in the same second and inside check_rate_limit together          *)

HttpRequests ==
    { [authorization |-> None, forwarded_for |-> None, client_host |-> "10.0.0.1"] }

LimitedPaths == { <<"api", "v1", "readings", "full">> }

RateLimitNext ==
    \/ \E request \in HttpRequests, path \in LimitedPaths \cup {<<"health">>},
          reachable \in BOOLEAN :
          Dispatch(request, path, reachable)
    \/ \E i \in 1..MaxDispatches : CountRequests(i)
    \/ \E i \in 1..MaxDispatches : AddRequest(i)
    \/ \E i \in 1..MaxDispatches : RejectRequest(i)
    \/ \E i \in 1..MaxDispatches : ExpireAndPass(i)
    \/ Tick

RateLimitSpec == Init /\ [][RateLimitNext]_vars

----------------------------------------------------------------------------
(* Properties *)

\* A process_reading call that has ended, by returning or by raising.
Ended == {"returned", "raised"}

\* The transitions pending -> processing -> {completed | failed}.
Forward(a, b) ==
    \/ a = b
    \/ a = "pending" /\ b = "processing"
    \/ a = "processing" /\ b \in {"completed", "failed"}

\* C1: across all create and process invocations, repeated and concurrent
\* ones included, the persisted status of a reading only moves forward along
\* pending -> processing -> {completed | failed}.
C1_StatusMonotonic ==
    [][\A id \in 1..Len(readings) :
          Forward(readings[id].status, readings'[id].status)]_vars

\* C2: in every reachable state a result blob of a reading is non-null only
\* if the reading's status is completed.
C2_BlobsOnlyWhenCompleted ==
    \A id \in 1..Len(readings) : \A c \in Calcs :
        Blob(readings[id], c) # None => readings[id].status = "completed"

\* C3: once a reading is completed or failed, no later or concurrent
\* process_reading call changes its status, result blobs, interpretation,
\* llm_provider or llm_model.
C3_TerminalReadingUntouched ==
    [][\A id \in 1..Len(readings) :
          readings[id].status \in {"completed", "failed"}
          => \A f \in ResultColumns : readings'[id][f] = readings[id][f]]_vars

\* C4: when a process_reading call on an existing reading ends, by returning
\* or by raising, the persisted status of the reading is completed or failed.
C4_EndsCompletedOrFailed ==
    [][\A t \in 1..Len(tasks) :
          (tasks[t].reading # None /\ tasks[t].pc \notin Ended
             /\ tasks'[t].pc \in Ended)
          => readings'[tasks[t].reading_id].status \in {"completed", "failed"}]_vars

ProviderFailureStep(t) ==
    /\ tasks[t].pc = "awaiting_llm"
    /\ tasks'[t].pc = "raised"
    /\ tasks'[t].exc = Some(LLMProviderError("unknown"))

\* C6 as claimed: when process_reading ends in failed because the provider
\* step failed, the blob of every calculator that succeeded in that pass is
\* stored on the failed reading.
C6_PartialResultsPreserved ==
    [][\A t \in 1..Len(tasks) :
          ProviderFailureStep(t)
          => \A c \in Calcs :
                tasks[t].calculations[c] # None
                => Blob(readings'[tasks[t].reading_id], c) = tasks[t].calculations[c]]_vars

\* C6 amended: when process_reading ends in failed because the provider step
\* failed, the calculator results of that pass are dropped: the pass writes
\* the failed status and leaves the four result blobs of the reading as they
\* were.
C6_PartialResultsDropped ==
    [][\A t \in 1..Len(tasks) :
          ProviderFailureStep(t)
          => /\ readings'[tasks[t].reading_id].status = "failed"
             /\ \A c \in Calcs :
                   Blob(readings'[tasks[t].reading_id], c)
                     = Blob(readings[tasks[t].reading_id], c)]_vars

\* A pass whose calculators all succeeded has failed on the provider, and
\* the failed reading holds none of their results.
C6_Witness ==
    \E t \in 1..Len(tasks) :
        /\ tasks[t].pc = "raised"
        /\ tasks[t].exc = Some(LLMProviderError("unknown"))
        /\ tasks[t].raised = {}
        /\ \E c \in Calcs : tasks[t].calculations[c] # None
        /\ readings[tasks[t].reading_id].status = "failed"
        /\ \A c \in Calcs : Blob(readings[tasks[t].reading_id], c) = None

\* C7: in every reachable state a reading whose status is failed has no
\* interpretation text.
C7_FailedHasNoInterpretation ==
    \A id \in 1..Len(readings) :
        readings[id].status = "failed" => readings[id].interpretation = None

\* C8: whichever calculators raise in the fan-out, every other calculator
\* the fan-out calls still yields its result, and when process_reading then
\* returns, the reading is completed with a null blob for each calculator
\* that raised and the result of each of the others.
C8_FanOutIsolation ==
    \A t \in 1..Len(tasks) :
        /\ tasks[t].pc \in {"awaiting_llm", "returned"}
           => \A c \in tasks[t].invoked :
                 /\ c \in tasks[t].raised => tasks[t].calculations[c] = None
                 /\ c \notin tasks[t].raised => tasks[t].calculations[c] # None
        /\ tasks[t].pc = "returned"
           => /\ readings[tasks[t].reading_id].status = "completed"
              /\ \A c \in tasks[t].invoked :
                    /\ c \in tasks[t].raised
                       => Blob(readings[tasks[t].reading_id], c) = None
                    /\ c \notin tasks[t].raised
                       => Blob(readings[tasks[t].reading_id], c) # None

\* The scenario of the specification: astrology alone raised, the reading is
\* completed without astrology_data and with the other three blobs.
C8_Witness ==
    \E t \in 1..Len(tasks) :
        /\ tasks[t].pc = "returned"
        /\ tasks[t].invoked = Calcs
        /\ tasks[t].raised = {"astrology"}
        /\ readings[tasks[t].reading_id].status = "completed"
        /\ readings[tasks[t].reading_id].astrology_data = None
        /\ \A c \in Calcs \ {"astrology"} :
              Blob(readings[tasks[t].reading_id], c) # None

\* C9: in process_reading as in preview_reading, a calculator whose include
\* flag is false in the request is not invoked and contributes no result.
C9_ExcludedNeverInvoked ==
    /\ \A t \in 1..Len(tasks) :
          tasks[t].reading # None
          => \A c \in Calcs :
                ~IncludeFlag(requested[tasks[t].reading_id], c)
                => /\ c \notin tasks[t].invoked
                   /\ tasks[t].calculations[c] = None
                   /\ Blob(readings[tasks[t].reading_id], c) = None
    /\ preview # None
       => \A c \in Calcs :
             ~IncludeFlag(Get(preview).request, c)
             => /\ c \notin Get(preview).invoked
                /\ Get(preview).calculations[c] = None

\* C10: for the same request and the same calculator outputs, the prompt
\* preview_reading sends to the provider is the prompt process_reading sends
\* for the reading created from that request.
C10_SamePrompt ==
    \A t \in 1..Len(tasks) :
        (/\ tasks[t].prompt # <<>>
         /\ preview # None
         /\ Get(preview).request = requested[tasks[t].reading_id]
         /\ Get(preview).calculations = tasks[t].calculations)
        => Get(preview).prompt = tasks[t].prompt

\* preview_reading has just run: the outcome it left is a new one.
PreviewStep == preview' # preview

\* C11: preview_reading performs no persistence operation: it never calls
\* execute, add, commit or refresh on the session, and the persisted readings
\* and all their fields are unchanged by a preview call, succeeding or failing.
C11_PreviewTouchesNoPersistence ==
    [][PreviewStep
       => /\ readings' = readings
          /\ \A op \in SessionOps : <<"preview", op>> \notin calls']_vars

\* A preview has failed on the provider next to a persisted reading that
\* process_reading completed, and its calculators were called.
C11_Witness ==
    /\ preview # None
    /\ Get(preview).exc # None
    /\ Get(preview).invoked # {}
    /\ \E c \in Calcs : <<"preview", c>> \in calls
    /\ Len(readings) = 1
    /\ readings[1].status = "completed"

\* create_reading has just succeeded: its request is on record.
CreateStep == Len(requested') = Len(requested) + 1

\* C12: a successful create inserts exactly one Reading row, with status
\* pending and null result blobs and interpretation, and has called no
\* calculator and no LLM provider when it returns.
C12_CreateInsertsOnePendingRow ==
    [][CreateStep
       => /\ Len(readings') = Len(readings) + 1
          /\ SubSeq(readings', 1, Len(readings)) = readings
          /\ LET reading == readings'[Len(readings')]
             IN  /\ reading.status = "pending"
                 /\ \A c \in Calcs : Blob(reading, c) = None
                 /\ reading.interpretation = None
          /\ \A callee \in Calcs \cup {"generate_response"} :
                <<"create", callee>> \notin calls']_vars

\* POST /readings/full has answered pending: the row is in, added and
\* committed by create, and its processing is scheduled, not started.
C12_Witness ==
    /\ Len(readings) = 1
    /\ readings[1].status = "pending"
    /\ response = Some([status_code |-> 200, detail |-> "pending"])
    /\ {<<"create", "add">>, <<"create", "commit">>} \subseteq calls
    /\ tasks[1].pc = "scheduled"

\* POST /readings/full has just answered with an error.
CreateFailStep ==
    /\ call' # None
    /\ Get(call').fn = "create_full_reading"
    /\ (response' # response \/ call' # call)
    /\ Get(response').status_code # 200

\* C13: when partner, persona, deck or spread resolution fails in create,
\* the failure is reported with no Reading row inserted and no background
\* processing scheduled for the request.
C13_FailedResolutionInsertsNothing ==
    [][CreateFailStep
       => /\ readings' = readings
          /\ requested' = requested
          /\ tasks' = tasks
          /\ <<"create", "execute">> \in calls']_vars

\* A request naming a missing spread has been answered 404 and one hitting
\* two default personas would be answered 500: here the 404, with no row and
\* no task.
C13_Witness ==
    /\ response # None
    /\ Get(response).status_code = 404
    /\ readings = <<>>
    /\ tasks = <<>>
    /\ <<"create", "add">> \notin calls

\* C14: create fails whenever the request names a deck slug or a spread slug
\* that does not exist, so a created reading's request names only existing
\* slugs and the reading holds the deck and spread it names; the default
\* deck is used only when the request gives no deck slug.
C14_MissingSlugFails ==
    [][CreateStep
       => LET request == requested'[Len(requested')]
              reading == readings'[Len(readings')]
          IN  /\ \E l \in Spreads : /\ l.slug = request.spread_slug
                                     /\ reading.spread_id = Some(l.id)
              /\ request.deck_slug # None
                 => \E d \in Decks : /\ d.slug = Get(request.deck_slug)
                                      /\ reading.deck_id = Some(d.id)
              /\ request.deck_slug = None
                 => \E d \in Decks : /\ d.slug = DEFAULT_TAROT_DECK
                                      /\ reading.deck_id = Some(d.id)]_vars

\* The section headers in the order of the prompt, and the sentence each
\* section consists of when its calculator gave no result.
SectionHeaders ==
    << [calc |-> "astrology",  header |-> "ASTROLOGY:",
        absent |-> "No astrology data available."],
       [calc |-> "numerology", header |-> "NUMEROLOGY:",
        absent |-> "No numerology data available."],
       [calc |-> "zodiac",     header |-> "CHINESE ZODIAC:",
        absent |-> "No Chinese zodiac data available."],
       [calc |-> "tarot",      header |-> "TAROT:",
        absent |-> "No tarot data available."] >>

\* C15: for every subset of present calculator results and any partner stub,
\* persona configuration and question, format_reading_prompt returns a
\* non-empty prompt with the headers ASTROLOGY:, NUMEROLOGY:, CHINESE ZODIAC:
\* and TAROT: in that order and, directly under the header of each calculator
\* without a result, that calculator's "No ... data available." sentence.
C15_PromptTotal ==
    (call # None /\ Get(call).fn = "format_reading_prompt")
    => LET prompt == Get(call).result
       IN  /\ prompt # <<>>
           /\ \E at \in [1..4 -> 1..Len(prompt)] :
                 /\ \A k \in 1..3 : at[k] < at[k + 1]
                 /\ \A k \in 1..4 :
                       /\ prompt[at[k]] = Part(SectionHeaders[k].header, None)
                       /\ at[k] < Len(prompt)
                       /\ SectionHeaders[k].calc \notin Get(call).present
                          => prompt[at[k] + 1] = Part(SectionHeaders[k].absent, None)
                       /\ SectionHeaders[k].calc \in Get(call).present
                          => prompt[at[k] + 1].arg = Some([calculator |-> SectionHeaders[k].calc])

\* The prompt of a call with the numerology result alone, no question, no
\* stub and no persona has been compiled.
C15_Witness ==
    /\ call # None
    /\ Get(call).fn = "format_reading_prompt"
    /\ Get(call).present = {"numerology"}
    /\ Get(call).question = None
    /\ Get(call).persona_config = None
    /\ Part("No tarot data available.", None)
          \in {Get(call).result[i] : i \in 1..Len(Get(call).result)}

\* The credential or endpoint provider name needs is at hand: the key given
\* to the call or the one of the settings, the GPT4Free host for meta.
CredentialConfigured(name, api_key, settings) ==
    CASE name = "openai"    -> api_key # None \/ settings.OPENAI_API_KEY # None
      [] name = "anthropic" -> api_key # None \/ settings.ANTHROPIC_API_KEY # None
      [] name = "google"    -> api_key # None \/ settings.GOOGLE_API_KEY # None
      [] name = "meta"      -> settings.GPT4FREE_HOST # None

\* C16: get_llm_provider fails with an LLMProviderError, returns no provider
\* and calls no generate_response whenever the requested name (the default
\* when none is requested) is not a supported one or that provider's
\* credential or endpoint is not configured.
C16_FactoryFailsFast ==
    (call # None /\ Get(call).fn = "get_llm_provider")
    => LET c == Get(call)
           name == IF c.provider_name # None THEN Get(c.provider_name)
                   ELSE DEFAULT_LLM_PROVIDER
       IN  /\ (name \notin {"openai", "anthropic", "google", "meta"}
               \/ ~CredentialConfigured(name, c.api_key, c.settings))
              => /\ c.result.exc = Some(LLMProviderError(name))
                 /\ c.result.val = None
           /\ <<"get_llm_provider", "generate_response">> \notin calls

\* The default provider was asked for with no OpenAI key anywhere and the
\* call failed.
C16_Witness ==
    /\ call # None
    /\ Get(call).fn = "get_llm_provider"
    /\ Get(call).provider_name = None
    /\ Get(call).api_key = None
    /\ Get(call).settings.OPENAI_API_KEY = None
    /\ Get(call).settings.GPT4FREE_HOST # None
    /\ Get(call).result.exc = Some(LLMProviderError("openai"))

\* C17: every failure of a backend's generate call (authentication, rate
\* limit, timeout, malformed response) reaches the caller of the
\* interpretation step as an LLMProviderError whose provider field is the
\* name of the backend that failed.
C17_ProviderErrorNamesBackend ==
    (/\ call # None
     /\ Get(call).fn = "_get_ai_interpretation"
     /\ Get(call).generate_called
     /\ Get(call).failure \in BackendFailures)
    => /\ Get(call).result.exc # None
       /\ Get(Get(call).result.exc).type = "LLMProviderError"
       /\ Get(Get(call).result.exc).tag = Some(Get(call).default_provider)

\* C18: for a fixed integer seed, deck and spread, every invocation of
\* draw_tarot_reading has the same outcome, cards, order and reversed flags,
\* whatever state earlier draws left the generator in.
C18_SeededDrawDeterministic ==
    (call # None /\ Get(call).fn = "draw_tarot_reading" /\ Get(call).seed # None)
    => \A r \in RngStates :
          LET again == DrawTarotReading(Get(call).spread_slug, Get(call).deck_slug,
                                        Get(call).partner_slug, Get(call).seed, r)
          IN  again.exc = Get(call).exc /\ again.val = Get(call).val

\* A seeded three-card draw from the default deck has succeeded, and an
\* unseeded draw would have depended on the generator.
C18_Witness ==
    /\ call # None
    /\ Get(call).fn = "draw_tarot_reading"
    /\ Get(call).seed = Some(12345)
    /\ Get(call).spread_slug = "three_card"
    /\ Get(call).deck_slug = None
    /\ Get(call).partner_slug = None
    /\ Get(call).val # None
    /\ Len(Get(Get(call).val).cards) = 3
    /\ \E r1, r2 \in RngStates :
          DrawTarotReading("three_card", None, None, None, r1).val
            # DrawTarotReading("three_card", None, None, None, r2).val

\* C19: a tarot draw for a spread whose card_count is greater than the
\* number of cards in the deck fails with a CalculationError for tarot and
\* returns no cards, for every seed.
C19_TooManyCardsFails ==
    (call # None /\ Get(call).fn = "draw_tarot_reading")
    => LET spread == Get(LoadSpread(Get(call).spread_slug).val)
           deck == Get(LoadDeck(Get(call).deck_slug, Get(call).partner_slug).val)
       IN  spread.card_count > Len(deck.cards)
           => /\ Get(call).exc = Some(CalculationError("tarot"))
              /\ Get(call).val = None

\* A seeded draw of the ten-card celtic cross from the four-card default
\* deck has failed.
C19_Witness ==
    /\ call # None
    /\ Get(call).fn = "draw_tarot_reading"
    /\ Get(call).spread_slug = "celtic_cross"
    /\ Get(call).deck_slug = None
    /\ Get(call).partner_slug = None
    /\ Get(call).seed = Some(7)
    /\ Get(call).exc = Some(CalculationError("tarot"))
    /\ rng = RandomSeed(7)

\* C20: every successful tarot draw returns exactly card_count cards:
\* pairwise distinct cards of the loaded deck, each with a reversed flag and
\* the spread position of its index.
C20_DrawsExactlyCardCount ==
    (call # None /\ Get(call).fn = "draw_tarot_reading" /\ Get(call).val # None)
    => LET spread == Get(LoadSpread(Get(call).spread_slug).val)
           deck == Get(LoadDeck(Get(call).deck_slug, Get(call).partner_slug).val)
           cards == Get(Get(call).val).cards
       IN  /\ Len(cards) = spread.card_count
           /\ \A i, j \in 1..Len(cards) : i # j => cards[i].name # cards[j].name
           /\ \A i \in 1..Len(cards) :
                 /\ \E k \in 1..Len(deck.cards) : deck.cards[k].name = cards[i].name
                 /\ cards[i].reversed \in BOOLEAN
                 /\ cards[i].position.index = i - 1
                 /\ cards[i].position.name = spread.positions[i]

\* C21: readings with different ids do not interact; in particular the
\* cards drawn for one reading do not depend on a seed supplied by another
\* request.  After a call that was given a seed, the unseeded draw
\* process_reading makes next for another reading (three_card, no deck, no
\* partner, no seed) yields the same cards whichever seed that call was given.
C21_SeedOfAnotherRequestDoesNotDecideCards ==
    (call # None /\ Get(call).fn = "draw_tarot_reading" /\ Get(call).seed # None)
        => \A other \in TarotSeeds \ {None} :
              LET c == Get(call)
                  after == DrawTarotReading(c.spread_slug, c.deck_slug,
                                            c.partner_slug, other, rng).rng
              IN  DrawTarotReading("three_card", None, None, None, rng).val
                    = DrawTarotReading("three_card", None, None, None, after).val

\* The values reduce_to_single_digit may end on.
Reduced(keep_master) ==
    IF keep_master THEN (1..9) \cup MASTER_NUMBERS ELSE 1..9

\* C22: for every positive number and either setting of keep_master,
\* reduce_to_single_digit returns a value in 1..9 (or 11, 22 or 33 when
\* keep_master is set), and reducing that value again returns it unchanged.
C22_ReduceReachesFixedPoint ==
    (call # None /\ Get(call).fn = "reduce_to_single_digit")
        => LET c == Get(call)
           IN  /\ c.val \in Reduced(c.keep_master)
               /\ ReduceToSingleDigit(c.val, c.keep_master) = c.val

C22_Witness ==
    /\ call # None
    /\ Get(call).fn = "reduce_to_single_digit"
    /\ Get(call).number = 399
    /\ Get(call).val = 3

\* C23 as stated: the life-path computation for 1990-06-15 sums the digits
\* of "06151990" to 40 and reduces that sum to the life-path number 4.
C23_SumIsForty ==
    (/\ call # None
     /\ Get(call).fn = "calculate_life_path_number"
     /\ Get(call).birth_date = [year |-> 1990, month |-> 6, day |-> 15])
        => /\ Get(call).val.date_str = <<0, 6, 1, 5, 1, 9, 9, 0>>
           /\ Get(call).val.total = 40
           /\ Get(call).val.number = 4

\* C23, amended: the life-path computation for 1990-06-15 sums the digits
\* of "06151990" to 31 and reduces that sum to the life-path number 4.
C23_SumIsThirtyOne ==
    (/\ call # None
     /\ Get(call).fn = "calculate_life_path_number"
     /\ Get(call).birth_date = [year |-> 1990, month |-> 6, day |-> 15])
        => /\ Get(call).val.date_str = <<0, 6, 1, 5, 1, 9, 9, 0>>
           /\ Get(call).val.total = 31
           /\ Get(call).val.number = 4
           /\ ~Get(call).val.is_master

C23_Witness ==
    /\ call # None
    /\ Get(call).fn = "calculate_life_path_number"
    /\ Get(call).birth_date = [year |-> 1990, month |-> 6, day |-> 15]
    /\ Get(call).val.number = 4

\* The remainder of year - 1924 by a cycle length, counted up from the base
\* year for the years before it.
CyclePosition(year, length) ==
    IF year >= 1924 THEN (year - 1924) % length
    ELSE (length - ((1924 - year) % length)) % length

\* C24: for every year, the years before 1924 included, get_zodiac_animal
\* returns the animal at index (year - 1924) mod 12 of Rat, Ox, Tiger,
\* Rabbit, Dragon, Snake, Horse, Goat, Monkey, Rooster, Dog, Pig, and
\* get_zodiac_element the element at index ((year - 1924) mod 10) div 2 of
\* Wood, Fire, Earth, Metal, Water; 1984 is Rat and Wood, 1985 Ox, 1986 Tiger
\* and Fire.
C24_ZodiacByCycle ==
    LET cycle == <<"Rat", "Ox", "Tiger", "Rabbit", "Dragon", "Snake",
                   "Horse", "Goat", "Monkey", "Rooster", "Dog", "Pig">>
        phases == <<"Wood", "Fire", "Earth", "Metal", "Water">>
        c == Get(call)
    IN  /\ (call # None /\ c.fn = "get_zodiac_animal")
              => /\ c.val = cycle[CyclePosition(c.year, 12) + 1]
                 /\ c.year = 1984 => c.val = "Rat"
                 /\ c.year = 1985 => c.val = "Ox"
                 /\ c.year = 1986 => c.val = "Tiger"
        /\ (call # None /\ c.fn = "get_zodiac_element")
              => /\ c.val = phases[(CyclePosition(c.year, 10) \div 2) + 1]
                 /\ c.year = 1984 => c.val = "Wood"
                 /\ c.year = 1986 => c.val = "Fire"

C24_Witness ==
    /\ call # None
    /\ Get(call).fn = "get_zodiac_element"
    /\ Get(call).year = 1911
    /\ Get(call).val = "Metal"

\* A step of the create endpoint or of the endpoint that returns a reading.
EndpointStep(fn) ==
    /\ call' # None
    /\ Get(call').fn = fn
    /\ (call' # call \/ response' # response \/ readings' # readings)

\* The default personas of the partner a request resolves to.
DefaultPersonasFor(request) ==
    LET partner == GetPartner(request.partner_slug)
    IN  IF partner.exc # None THEN {}
        ELSE {s \in Personas : s.partner_id = Get(partner.val).id /\ s.is_default}

\* C25: when more than one persona of the resolved partner is marked default
\* and the request names no persona, persona resolution silently picks one
\* of them, and create succeeds with that persona attached (unless the
\* insert itself fails).
C25_PicksOneOfSeveralDefaults ==
    [][(/\ EndpointStep("create_full_reading")
        /\ Get(call').request.persona_id = None
        /\ Cardinality(DefaultPersonasFor(Get(call').request)) > 1)
          => \/ Get(response').detail = PersistenceError.message
             \/ /\ Get(response').status_code = 200
                /\ Len(readings') = Len(readings) + 1
                /\ \E s \in DefaultPersonasFor(Get(call').request) :
                      readings'[Len(readings')].persona_id = Some(s.id)]_vars

\* C27: GET /readings/{id} for an id no reading has answers 404 with the
\* detail "Reading not found".
C27_MissingReadingIs404 ==
    [][(/\ EndpointStep("get_reading")
        /\ GetReading(Get(call').reading_id) = None)
          => response' = Some([status_code |-> 404,
                               detail |-> "Reading not found"])]_vars

\* C28: every persisted reading with a persona references a persona of the
\* reading's own partner, also when the request named the persona by id.
C28_PersonaOfOwnPartner ==
    \A id \in 1..Len(readings) :
       readings[id].persona_id # None
          => \E s \in Personas :
                /\ s.id = Get(readings[id].persona_id)
                /\ Some(s.partner_id) = readings[id].partner_id

\* The number of cards of a stored tarot result: the cards draw_tarot_reading
\* lays out for the arguments the result was drawn with.
CardsIn(tarot) ==
    LET drawn == DrawTarotReading(tarot.spread_slug, tarot.deck_slug,
                                  tarot.partner_slug, tarot.seed, rng)
    IN  Len(Get(drawn.val).cards)

\* C29: the tarot draw that process performs for a reading uses the spread
\* and deck the reading was created with, so the number of cards in the
\* stored tarot_data equals that spread's card count.
C29_DrawUsesReadingsSpreadAndDeck ==
    \A id \in 1..Len(readings) :
       readings[id].tarot_data # None
          => LET tarot == Get(readings[id].tarot_data)
             IN  /\ \E l \in Spreads :
                       /\ Some(l.id) = readings[id].spread_id
                       /\ l.slug = tarot.spread_slug
                       /\ CardsIn(tarot) = l.card_count
                 /\ \E d \in Decks :
                       /\ Some(d.id) = readings[id].deck_id
                       /\ d.slug = IF TruthyStr(tarot.deck_slug)
                                   THEN Get(tarot.deck_slug)
                                   ELSE DEFAULT_TAROT_DECK

\* C30: the astrology calculator is invoked whenever birth date, birth time,
\* latitude and longitude are all supplied (and astrology is included),
\* also when the latitude or the longitude is exactly 0.
C30_AstrologyInvokedWhenInputsSupplied ==
    \A t \in 1..Len(tasks) :
       (/\ tasks[t].pc \in {"awaiting_llm", "returned"}
        /\ Get(tasks[t].reading).birth_date # None
        /\ Get(tasks[t].reading).birth_time # None
        /\ Get(tasks[t].reading).birth_latitude # None
        /\ Get(tasks[t].reading).birth_longitude # None)
          => "astrology" \in tasks[t].invoked

\* The requests of one client and path the limiter let through with a time
\* in the window of WindowSeconds seconds that starts at second from.
AllowedInWindow(client_id, path, from) ==
    {i \in 1..Len(dispatches) :
        /\ dispatches[i].pc = "done"
        /\ dispatches[i].status = 200
        /\ dispatches[i].client_id = client_id
        /\ dispatches[i].path = path
        /\ from <= dispatches[i].current_time
        /\ dispatches[i].current_time < from + WindowSeconds}

\* C26: for every client and path, while the cache is reachable and under
\* any interleaving of requests (several in the same second included), the
\* number of requests allowed within any window of 60 seconds never exceeds
\* the per-minute limit of the path.  The requests counted are those the
\* limiter let through after counting them in the reachable cache.
C26_AllowedWithinLimit ==
    \A i \in 1..Len(dispatches) :
       Cardinality(AllowedInWindow(dispatches[i].client_id, dispatches[i].path,
                                   dispatches[i].current_time))
          <= GetRateLimit(dispatches[i].path)

====
